---- MODULE Spec2Model ----
(***************************************************************************)
(* A model of the yearly medoid compositing pipeline of                    *)
(* earth-engine/landtrendr/preprocess.py (build_SR_collection) and of its  *)
(* copy earth-engine/build_SR_collection.py (main), of the QA masking      *)
(* (_mask_landsat_sr), of the OLI recalibration (_harmonization_Roy), of   *)
(* the per-sensor collections and their merge (_build_combined_Landsat),   *)
(* and of the segments and events of earth-engine/landtrendr/              *)
(* postprocess.py (get_segment_data, extract_deforestation_events).        *)
(*                                                                         *)
(* Every operation of the pipeline is pixel-wise except the enumeration    *)
(* of the years, so the compositor is followed at one pixel: an image is   *)
(* its acquisition time and, at that pixel, the value and the mask of      *)
(* each band, as Earth Engine keeps them (a masked band is no-data).       *)
(* Earth Engine's operations are modelled by what they do on such an       *)
(* image: filterDate keeps [start, end), reducers skip masked inputs, a    *)
(* reducer with several inputs skips a record with any input masked, the   *)
(* median of an even number of values is the mean of the two middle ones,  *)
(* and a reduction of an empty collection is an image with no bands.       *)
(* Which of several records with the same minimum Reducer.min(7) keeps is  *)
(* not fixed by the code, and is a choice here.                            *)
(***************************************************************************)
EXTENDS Integers, Sequences, FiniteSets, TLC

VARIABLES
    entry,        \* the pipeline that runs: "build_SR_collection" (preprocess.py) or "main" (build_SR_collection.py)
    start_day,    \* the start_day argument "mm-dd", split: <<month, day>>
    end_day,      \* the end_day argument "mm-dd", split: <<month, day>>
    collection,   \* the merged series (combined_landsat), in the order of the merge
    pc,           \* where the pipeline is: "years", "medoid", "select", "done", "failed"
    years,        \* the list _create_yearly_list returned
    filtered,     \* per processed year, filtered_collection
    distances,    \* per processed year, distance_from_median
    medoids,      \* per processed year, the image _extract_medoid_image returned
    result,       \* the collection the pipeline returns, after select
    failure,      \* the exception that ended the run, or "none"
    raw_image,    \* the image given to _mask_landsat_sr: per pixel, pixel_qa and the bands
    masked_image, \* the image _mask_landsat_sr returned, or <<>> before it ran
    oli_image,    \* the image given to _harmonization_Roy: the 6 bands at a pixel
    tm_image,     \* the image _harmonization_Roy returned, or <<>> before it ran
    catalog,      \* per sensor, the images of "LANDSAT/<sensor>/C01/T1_SR" over the aoi, at a pixel
    landsat5,     \* what _build_TM_collection("LT05") returned
    landsat7,     \* what _build_TM_collection("LE07") returned
    landsat8,     \* what _build_OLI_collection("LC08") returned
    combined,     \* what _build_combined_Landsat returned
    merge_pc,     \* where _build_combined_Landsat is: "landsat5", "landsat7", "landsat8", "merge", "done"
    LT_result,    \* the Landtrendr output at a pixel: the LandTrendr array, rmse, and whether the pixel is masked
    seg_index,    \* the index argument of get_segment_data
    seg_right,    \* the right argument of get_segment_data
    seg_info,     \* the image get_segment_data returned, at the pixel
    events_start_year,     \* the start_year argument of extract_deforestation_events
    events_end_year,       \* the end_year argument of extract_deforestation_events
    events_dsnr_threshold, \* the dsnr_threshold argument of extract_deforestation_events
    events,       \* the image extract_deforestation_events returned, at the pixel
    flattened_image, \* the image extract_deforested_regions returned, at the pixel
    seg_pc,       \* where the postprocessing is: "segments", "events", "done", "flattened", "flatten_failed", "failed"
    seg_failure, \* the exception the postprocessing raised, or "none"
    sr_collection, \* the collection given to build_LT_collection, at a pixel
    lt_index, \* the index argument of build_LT_collection
    lt_ftv_list, \* the ftv_list argument of build_LT_collection
    nd_zero_masked, \* whether the platform masks a normalized difference of two zeros (else it is 0)
    lt_collection, \* the collection build_LT_collection returned
    lt_pc, \* where build_LT_collection is: "build", "done", "failed"
    lt_failure, \* the exception build_LT_collection raised, or "none"
    main_years, \* the list create_yearly_list returned in main of build_SR_collection.py, run on the same series
    main_medoids, \* per processed year, the image extract_medoid_image returned in that run
    main_result, \* the collection main returned, after select
    main_pc, \* where main is: "years", "medoid", "select", "done", "failed"
    main_failure, \* the exception that ended main, or "none"
    gedi_file_paths, \* the h5 files given to gedi_L2A_to_df: per file and beam, what reading it gives
    gedi_bbox, \* the bbox argument: <<ul_lat, ul_lon, lr_lat, lr_lon>>
    gedi_df, \* df, the rows appended so far
    gedi_file, \* the position of _f_name in file_paths
    gedi_beam, \* the position of beam in the list of beams
    gedi_errors, \* per file, the beam at which a KeyError was caught, or 0
    gedi_pc \* where gedi_L2A_to_df is: "files", "returned"

compositor_vars == <<entry, start_day, end_day, collection, pc, years, filtered,
                     distances, medoids, result, failure>>
mask_vars == <<raw_image, masked_image>>
roy_vars == <<oli_image, tm_image>>
merge_vars == <<catalog, landsat5, landsat7, landsat8, combined, merge_pc>>
seg_vars == <<LT_result, seg_index, seg_right, seg_info, events_start_year,
              events_end_year, events_dsnr_threshold, events, flattened_image,
              seg_pc, seg_failure>>
lt_vars == <<sr_collection, lt_index, lt_ftv_list, nd_zero_masked, lt_collection,
            lt_pc, lt_failure>>
main_vars == <<main_years, main_medoids, main_result, main_pc, main_failure>>
gedi_vars == <<gedi_file_paths, gedi_bbox, gedi_df, gedi_file, gedi_beam, gedi_errors, gedi_pc>>
vars == <<compositor_vars, mask_vars, roy_vars, merge_vars,
          seg_vars, lt_vars, main_vars, gedi_vars>>

----------------------------------------------------------------------------
(* Bounds of the model. *)

\* Most images of a merged series whose acquisition times are varied.
MaxImages == 3
\* Most images of a merged series whose band vectors are varied.
MaxObs == 3
\* Band values are drawn from 0..MaxVal.
MaxVal == 1
\* The model's clock: instants per day, days per month, months per year.
TicksPerDay == 2
DaysPerMonth == 2
MonthsPerYear == 2

(* Program constants. *)

\* The canonical bands B1,B2,B3,B4,B5,B7.
NumBands == 6
\* start_year and end_year of the archive query (end_year is the year after).
FirstYear == 1985

Bands == 1..NumBands
LastYear == FirstYear + 1

----------------------------------------------------------------------------
(* Dates: ee.Date is an instant, counted here in ticks. *)

DaysPerYear == MonthsPerYear * DaysPerMonth
TicksPerYear == DaysPerYear * TicksPerDay

\* ee.Date.fromYMD(year, month, day): midnight of that day.
fromYMD(year, month, day) ==
    (year * DaysPerYear + (month - 1) * DaysPerMonth + (day - 1)) * TicksPerDay

\* date.advance(n, "day")
advance_day(date, n) == date + n * TicksPerDay

\* ee.Date(date).get("year")
get_year(date) == date \div TicksPerYear

\* collection.filterDate(start, end): start inclusive, end exclusive.
filterDate(coll, start, end) ==
    SelectSeq(coll, LAMBDA im : im.time >= start /\ im.time < end)

----------------------------------------------------------------------------
(* _create_yearly_list *)

\* ee.List.distinct(): the first occurrence of each element, in order.
distinct(list) ==
    LET keep == {i \in 1..Len(list) : \A j \in 1..(i - 1) : list[j] # list[i]}
        F[i \in 0..Len(list)] ==
            IF i = 0 THEN <<>>
            ELSE IF i \in keep THEN Append(F[i - 1], list[i]) ELSE F[i - 1]
    IN  F[Len(list)]

\* ee.List.sort(): ascending, duplicates kept.
RECURSIVE sort(_)
sort(list) ==
    IF list = <<>> THEN <<>>
    ELSE LET m == CHOOSE i \in 1..Len(list) :
                    /\ \A j \in 1..Len(list) : list[i] <= list[j]
                    /\ \A j \in 1..(i - 1) : list[j] # list[i]
             rest == [j \in 1..(Len(list) - 1) |-> IF j < m THEN list[j] ELSE list[j + 1]]
         IN  <<list[m]>> \o sort(rest)

\* collection.iterate(_extract_and_append_date, ee.List([]))
extract_dates(coll) == [i \in 1..Len(coll) |-> coll[i].time]

\* create_yearly_list without distinct().
create_yearly_list_not_distinct(coll) ==
    LET dates == extract_dates(coll)
    IN  sort([i \in 1..Len(dates) |-> get_year(dates[i])])

create_yearly_list(coll) ==
    LET dates == extract_dates(coll)
    IN  sort(distinct([i \in 1..Len(dates) |-> get_year(dates[i])]))

----------------------------------------------------------------------------
(* _extract_medoid_image *)

NoBands == [val |-> <<>>, mask |-> <<>>]

RECURSIVE SumSeq(_)
SumSeq(s) == IF s = <<>> THEN 0 ELSE Head(s) + SumSeq(Tail(s))

\* The first day of the window of a year.
window_start(year, sd) == fromYMD(year, sd[1], sd[2])

\* window_end without the day added to the end boundary.
window_end_not_advanced(year, ed) == fromYMD(year, ed[1], ed[2])

\* The end of the window of a year: the day after end_day, exclusive.
window_end(year, ed) == advance_day(fromYMD(year, ed[1], ed[2]), 1)

\* The k-th smallest of the unmasked values of band b.
kth(coll, b, k) ==
    LET idx == {i \in 1..Len(coll) : coll[i].mask[b]}
    IN  CHOOSE v \in {coll[i].val[b] : i \in idx} :
            /\ Cardinality({i \in idx : coll[i].val[b] < v}) < k
            /\ Cardinality({i \in idx : coll[i].val[b] <= v}) >= k

\* Twice the median of the unmasked values of band b (the median of an even
\* number of values ends in .5 when the middle two differ by an odd number).
median2(coll, b) ==
    LET n == Cardinality({i \in 1..Len(coll) : coll[i].mask[b]})
    IN  IF n % 2 = 1 THEN 2 * kth(coll, b, (n + 1) \div 2)
        ELSE kth(coll, b, n \div 2) + kth(coll, b, n \div 2 + 1)

\* filtered_collection.median(): per band, over the images where it is unmasked;
\* masked where every image is masked; no bands when the collection is empty.
\* val2 holds twice the median.
median(coll) ==
    IF coll = <<>> THEN [val2 |-> <<>>, mask |-> <<>>]
    ELSE [val2 |-> [b \in Bands |->
                     IF \E i \in 1..Len(coll) : coll[i].mask[b]
                     THEN median2(coll, b) ELSE 0],
          mask |-> [b \in Bands |-> \E i \in 1..Len(coll) : coll[i].mask[b]]]

\* squared_difference without pow: the differences, not squared.
difference_not_squared(image, med) ==
    [val4 |-> [b \in Bands |->
                 IF image.mask[b] /\ med.mask[b]
                 THEN 2 * (2 * image.val[b] - med.val2[b])
                 ELSE 0],
     mask |-> [b \in Bands |-> image.mask[b] /\ med.mask[b]]]

\* ee.Image(image).subtract(median).pow(ee.Image.constant(2)): a band of the
\* result is masked where either operand is. With twice the median, the
\* values are four times the squared differences.
squared_difference(image, med) ==
    [val4 |-> [b \in Bands |->
                 IF image.mask[b] /\ med.mask[b]
                 THEN (2 * image.val[b] - med.val2[b]) * (2 * image.val[b] - med.val2[b])
                 ELSE 0],
     mask |-> [b \in Bands |-> image.mask[b] /\ med.mask[b]]]

\* distance.reduce("sum"): the sum of the unmasked bands, masked when all are.
reduce_sum(distance) ==
    [val4 |-> SumSeq(distance.val4),
     mask |-> \E b \in Bands : distance.mask[b]]

\* _euclidean_distance: the distance band followed by the bands of the image.
\* Band 1 holds four times the squared distance.
_euclidean_distance(image, med) ==
    LET sum == reduce_sum(squared_difference(image, med))
    IN  [val |-> <<sum.val4>> \o image.val,
         mask |-> <<sum.mask>> \o image.mask]

\* min_inputs looking at the mask of the distance band alone.
min_inputs_by_distance_mask(images) ==
    {i \in 1..Len(images) : images[i].mask[1]}

\* The records Reducer.min(7) takes in: those with all 7 inputs unmasked.
min_inputs(images) ==
    {i \in 1..Len(images) : \A k \in 1..(NumBands + 1) : images[i].mask[k]}

\* reduce with Reducer.min(), the minimum of each band by itself.
reduce_min_each_band(images) ==
    IF images = <<>> THEN {NoBands}
    ELSE {[val |-> [k \in 1..(NumBands + 1) |->
                      IF \E i \in 1..Len(images) : images[i].mask[k]
                      THEN CHOOSE v \in {images[i].val[k] : i \in {j \in 1..Len(images) : images[j].mask[k]}} :
                             \A i \in {j \in 1..Len(images) : images[j].mask[k]} : v <= images[i].val[k]
                      ELSE 0],
           mask |-> [k \in 1..(NumBands + 1) |-> \E i \in 1..Len(images) : images[i].mask[k]]]}

\* ImageCollection.reduce(ee.Reducer.min(7)): the images it can return. The
\* record with the least first input; masked when no record is taken in; an
\* image with no bands when the collection is empty.
reduce_min7(images) ==
    IF images = <<>> THEN {NoBands}
    ELSE IF min_inputs(images) = {}
    THEN {[val |-> [k \in 1..(NumBands + 1) |-> 0],
           mask |-> [k \in 1..(NumBands + 1) |-> FALSE]]}
    ELSE {[val |-> images[i].val, mask |-> images[i].mask] :
            i \in {j \in min_inputs(images) :
                     \A h \in min_inputs(images) : images[j].val[1] <= images[h].val[1]}}

\* filtered_collection.map(_euclidean_distance)
distance_from_median(coll) ==
    LET med == median(coll)
    IN  [i \in 1..Len(coll) |-> _euclidean_distance(coll[i], med)]

\* The properties of the image each pipeline returns for a year:
\* preprocess.py sets system:time_start, build_SR_collection.py sets nothing.
medoid_properties(which, year) ==
    IF which = "build_SR_collection"
    THEN [time_start |-> fromYMD(year, 1, 1)]
    ELSE <<>>

----------------------------------------------------------------------------
(* .select([1, 2, 3, 4, 5, 6], ["B1", "B2", "B3", "B4", "B5", "B7"]) *)

\* Whether the band indices 1..6 (counted from 0) exist in the image.
can_select(image) == Len(image.val) >= NumBands + 1

select_bands(image) ==
    [val |-> [b \in Bands |-> image.val[b + 1]],
     mask |-> [b \in Bands |-> image.mask[b + 1]],
     props |-> image.props]

----------------------------------------------------------------------------
(* The inputs. *)

\* The windows tried: the second and third day of the year, and the whole year.
InnerWindow == << <<1, 2>>, <<2, 1>> >>
Windows == {InnerWindow, << <<1, 1>>, <<MonthsPerYear, DaysPerMonth>> >>}

\* A band vector: the first three bands hold x, the last three y. The vectors
\* tried take every value in the first three, the least or the greatest in
\* the last three.
Vec(x, y) ==
    [val |-> [b \in Bands |-> IF b <= 3 THEN x ELSE y],
     mask |-> [b \in Bands |-> TRUE]]

\* A band vector with the first band masked and the others holding x.
PartialVec(x) ==
    [val |-> [b \in Bands |-> IF b = 1 THEN 0 ELSE x],
     mask |-> [b \in Bands |-> b # 1]]

MaskedVec == [val |-> [b \in Bands |-> 0], mask |-> [b \in Bands |-> FALSE]]

Vectors ==
    {Vec(x, y) : x \in 0..MaxVal, y \in {0, MaxVal}}
        \cup {PartialVec(MaxVal), MaskedVec}

Image(t, v) == [time |-> t, val |-> v.val, mask |-> v.mask]

\* The instants tried: late on the first day, the start of the second, late on
\* the third and the start of the fourth day of each year.
ProbeTimes ==
    {fromYMD(y, 1, 1) + TicksPerDay - 1 : y \in FirstYear..LastYear}
        \cup {fromYMD(y, 1, 2) : y \in FirstYear..LastYear}
        \cup {fromYMD(y, 2, 1) + TicksPerDay - 1 : y \in FirstYear..LastYear}
        \cup {fromYMD(y, 2, 2) : y \in FirstYear..LastYear}

\* The archive query of _build_TM_collection and _build_OLI_collection keeps
\* the images from start_day of start_year to end_day of end_year.
InArchive(t, sd, ed) ==
    /\ t >= fromYMD(FirstYear, sd[1], sd[2])
    /\ t < advance_day(fromYMD(LastYear, ed[1], ed[2]), 1)

SeqsUpTo(S, n) == UNION {[1..k -> S] : k \in 1..n}

\* Series that vary the acquisition times, with one band vector.
TimeSeries(sd, ed) ==
    SeqsUpTo({Image(t, Vec(1, 1)) : t \in {u \in ProbeTimes : InArchive(u, sd, ed)}},
             MaxImages)

\* Series that vary the band vectors, within the window of the first year,
\* the images alternating between two instants.
TimeA == fromYMD(FirstYear, 1, 2)
TimeB == fromYMD(FirstYear, 2, 1) + TicksPerDay - 1

BandSeries ==
    {[i \in 1..Len(vs) |-> Image(IF (i % 2 = 1) = flip THEN TimeA ELSE TimeB, vs[i])] :
        vs \in SeqsUpTo(Vectors, MaxObs), flip \in BOOLEAN}

----------------------------------------------------------------------------
(* The pipeline. *)

\* The state of a part of the program that does not run.
CompositorIdle ==
    /\ entry = "none"
    /\ start_day = <<>>
    /\ end_day = <<>>
    /\ collection = <<>>
    /\ pc = "idle"
    /\ years = <<>>
    /\ filtered = <<>>
    /\ distances = <<>>
    /\ medoids = <<>>
    /\ result = <<>>
    /\ failure = "none"

MaskIdle == raw_image = <<>> /\ masked_image = <<>>

RoyIdle == oli_image = <<>> /\ tm_image = <<>>

MergeIdle ==
    /\ catalog = <<>>
    /\ landsat5 = <<>>
    /\ landsat7 = <<>>
    /\ landsat8 = <<>>
    /\ combined = <<>>
    /\ merge_pc = "idle"

SegIdle ==
    /\ LT_result = <<>>
    /\ seg_index = "none"
    /\ seg_right = FALSE
    /\ seg_info = <<>>
    /\ events_start_year = 0
    /\ events_end_year = 0
    /\ events_dsnr_threshold = 0
    /\ events = <<>>
    /\ flattened_image = <<>>
    /\ seg_pc = "idle"
    /\ seg_failure = "none"

GediIdle ==
    /\ gedi_file_paths = <<>>
    /\ gedi_bbox = <<>>
    /\ gedi_df = <<>>
    /\ gedi_file = 0
    /\ gedi_beam = 0
    /\ gedi_errors = <<>>
    /\ gedi_pc = "idle"

MainIdle ==
    /\ main_years = <<>>
    /\ main_medoids = <<>>
    /\ main_result = <<>>
    /\ main_pc = "idle"
    /\ main_failure = "none"

LTIdle ==
    /\ sr_collection = <<>>
    /\ lt_index = "none"
    /\ lt_ftv_list = <<>>
    /\ nd_zero_masked = FALSE
    /\ lt_collection = <<>>
    /\ lt_pc = "idle"
    /\ lt_failure = "none"

Init ==
    /\ MaskIdle
    /\ RoyIdle
    /\ MergeIdle
    /\ SegIdle
    /\ LTIdle
    /\ MainIdle
    /\ GediIdle
    /\ entry \in {"build_SR_collection", "main"}
    /\ \E w \in Windows :
        /\ start_day = w[1]
        /\ end_day = w[2]
        /\ collection \in TimeSeries(w[1], w[2])
                             \cup (IF w = InnerWindow THEN BandSeries ELSE {})
    /\ pc = "years"
    /\ years = <<>>
    /\ filtered = <<>>
    /\ distances = <<>>
    /\ medoids = <<>>
    /\ result = <<>>
    /\ failure = "none"

\* years = _create_yearly_list(collection)
CreateYearlyList ==
    /\ pc = "years"
    /\ years' = create_yearly_list(collection)
    /\ pc' = "medoid"
    /\ UNCHANGED <<entry, start_day, end_day, collection, filtered, distances,
                   medoids, result, failure>>
    /\ UNCHANGED <<mask_vars, roy_vars, merge_vars, seg_vars, lt_vars, main_vars, gedi_vars>>

\* years.map(_extract_medoid): _extract_medoid_image for the next year.
ExtractMedoid ==
    /\ pc = "medoid"
    /\ Len(medoids) < Len(years)
    /\ LET year == years[Len(medoids) + 1]
           filtered_collection ==
               filterDate(collection, window_start(year, start_day),
                          window_end(year, end_day))
           dist == distance_from_median(filtered_collection)
       IN  /\ filtered' = Append(filtered, filtered_collection)
           /\ distances' = Append(distances, dist)
           /\ \E out \in reduce_min7(dist) :
                medoids' = Append(medoids,
                                  [val |-> out.val, mask |-> out.mask,
                                   props |-> medoid_properties(entry, year)])
    /\ UNCHANGED <<entry, start_day, end_day, collection, pc, years, result, failure>>
    /\ UNCHANGED <<mask_vars, roy_vars, merge_vars, seg_vars, lt_vars, main_vars, gedi_vars>>

\* ee.ImageCollection.fromImages(images)
FromImages ==
    /\ pc = "medoid"
    /\ Len(medoids) = Len(years)
    /\ pc' = "select"
    /\ UNCHANGED <<entry, start_day, end_day, collection, years, filtered, distances,
                   medoids, result, failure>>
    /\ UNCHANGED <<mask_vars, roy_vars, merge_vars, seg_vars, lt_vars, main_vars, gedi_vars>>

\* .select([1, 2, 3, 4, 5, 6], [...]) on every image of the collection.
SelectBands ==
    /\ pc = "select"
    /\ \A k \in 1..Len(medoids) : can_select(medoids[k])
    /\ result' = [k \in 1..Len(medoids) |-> select_bands(medoids[k])]
    /\ pc' = "done"
    /\ UNCHANGED <<entry, start_day, end_day, collection, years, filtered, distances,
                   medoids, failure>>
    /\ UNCHANGED <<mask_vars, roy_vars, merge_vars, seg_vars, lt_vars, main_vars, gedi_vars>>

\* The same when an image lacks the bands: Earth Engine raises its exception.
SelectFails ==
    /\ pc = "select"
    /\ \E k \in 1..Len(medoids) : ~can_select(medoids[k])
    /\ failure' = "EEException"
    /\ pc' = "failed"
    /\ UNCHANGED <<entry, start_day, end_day, collection, years, filtered, distances,
                   medoids, result>>
    /\ UNCHANGED <<mask_vars, roy_vars, merge_vars, seg_vars, lt_vars, main_vars, gedi_vars>>

Next ==
    \/ CreateYearlyList
    \/ ExtractMedoid
    \/ FromImages
    \/ SelectBands
    \/ SelectFails

Spec == Init /\ [][Next]_vars

----------------------------------------------------------------------------
(* The claims on the compositor. The helpers restate, in the words of the *)
(* claims, what the operators above compute.                               *)

\* The day of the year of an instant, and of a "mm-dd" pair, from 0.
DayOfYear(t) == (t \div TicksPerDay) % DaysPerYear
DayIndex(md) == (md[1] - 1) * DaysPerMonth + (md[2] - 1)

\* The acquisition date lies from start_day to end_day of the year, inclusive.
InWindow(im, year) ==
    /\ im.time \div (DaysPerYear * TicksPerDay) = year
    /\ DayIndex(start_day) <= DayOfYear(im.time)
    /\ DayOfYear(im.time) <= DayIndex(end_day)

\* The observations of the series that lie in the window of the k-th year.
WindowOf(k) == {i \in 1..Len(collection) : InWindow(collection[i], years[k])}

\* The candidates among them: all 6 bands unmasked.
Candidates(k) == {i \in WindowOf(k) : \A b \in Bands : collection[i].mask[b]}

\* Four times the sum over the 6 bands of (band value - median)^2.
SqDist4(i, med) ==
    LET d == [b \in Bands |-> 2 * collection[i].val[b] - med.val2[b]]
    IN  d[1] * d[1] + d[2] * d[2] + d[3] * d[3] + d[4] * d[4] + d[5] * d[5] + d[6] * d[6]

\* The image of the k-th year holds data in some band.
HasData(im) == \E n \in 1..Len(im.val) : im.mask[n]

\* The 6 bands, from position `first` on, are those of observation i, all unmasked.
IsVectorOf(im, first, i) ==
    \A b \in Bands :
        /\ im.mask[first + b - 1]
        /\ collection[i].mask[b]
        /\ im.val[first + b - 1] = collection[i].val[b]

\* The candidates at the least distance from the median.
Nearest(k) ==
    LET med == median(filtered[k])
    IN  {i \in Candidates(k) : \A j \in Candidates(k) : SqDist4(i, med) <= SqDist4(j, med)}

\* C1 (medoid invariant): wherever a yearly composite holds data, before and
\* after the distance band is dropped, its 6 bands are the complete 6-band
\* vector of one observation in that year's window: never a mix of bands of
\* different observations, never an averaged value.
C1_MedoidInvariant ==
    /\ \A k \in 1..Len(medoids) :
         HasData(medoids[k]) => \E i \in WindowOf(k) : IsVectorOf(medoids[k], 2, i)
    /\ \A k \in 1..Len(result) :
         HasData(result[k]) => \E i \in WindowOf(k) : IsVectorOf(result[k], 1, i)

\* A year composited from three observations, two of which differ in opposite
\* directions in two bands (the per-band minimum is the vector of neither).
C1_Witness ==
    /\ pc = "done"
    /\ \E k \in 1..Len(result) :
         /\ HasData(result[k])
         /\ Cardinality(Candidates(k)) >= 3
         /\ \E i, j \in Candidates(k) :
              /\ collection[i].val[1] < collection[j].val[1]
              /\ collection[i].val[4] > collection[j].val[4]

\* C2 (medoid minimality): the observation selected for a year is a candidate
\* whose squared distance to the per-band median is the least among the
\* candidates, and the distance band holds that distance.
C2_MedoidMinimality ==
    \A k \in 1..Len(medoids) :
        HasData(medoids[k]) =>
            LET med == median(filtered[k])
                dist == [i \in Candidates(k) |-> SqDist4(i, med)]
            IN  \E i \in DOMAIN dist :
                    /\ IsVectorOf(medoids[k], 2, i)
                    /\ medoids[k].val[1] = dist[i]
                    /\ \A j \in DOMAIN dist : dist[i] <= dist[j]

\* A year with three candidates at two different distances or more.
C2_Witness ==
    \E k \in 1..Len(medoids) :
        /\ HasData(medoids[k])
        /\ Cardinality(Candidates(k)) >= 3
        /\ \E i, j \in Candidates(k) :
             SqDist4(i, median(filtered[k])) < SqDist4(j, median(filtered[k]))

\* C3 (medoid tie-break), as claimed: when several candidates are at the
\* least distance, the composite is the vector of one acquired earliest.
C3_TieBreakEarliest ==
    \A k \in 1..Len(medoids) :
        HasData(medoids[k]) =>
            \E i \in Nearest(k) :
                /\ IsVectorOf(medoids[k], 2, i)
                /\ \A j \in Nearest(k) : collection[i].time <= collection[j].time

\* C4 (empty compositing year), as claimed: a year with no observation in
\* its window is reported as a DataError and still gets an all-no-data
\* composite.
C4_EmptyYearReported ==
    pc \in {"done", "failed"} =>
        \A k \in 1..Len(filtered) :
            filtered[k] = <<>> =>
                /\ failure = "DataError"
                /\ k \in 1..Len(result)
                /\ Len(result[k].val) = NumBands
                /\ \A b \in Bands : ~result[k].mask[b]

\* C5 (year enumeration): the years are the distinct calendar years of the
\* timestamps of the series, ascending, none twice, none left out, and the
\* collection of medoids holds one image per year, in that order.
C5_YearEnumeration ==
    pc # "years" =>
        /\ \A a, b \in 1..Len(years) : a < b => years[a] < years[b]
        /\ {years[a] : a \in 1..Len(years)}
             = {collection[i].time \div (DaysPerYear * TicksPerDay) : i \in 1..Len(collection)}
        /\ Len(medoids) <= Len(years)
        /\ Len(filtered) = Len(medoids)
        /\ pc \in {"select", "done", "failed"} => Len(medoids) = Len(years)
        /\ pc = "done" => Len(result) = Len(years)

\* Three images, the first of a later year than the two others, one year
\* with no observation in its window: two images, one of them for that year.
C5_Witness ==
    /\ pc = "select"
    /\ Len(collection) = 3
    /\ Len(years) = 2
    /\ get_year(collection[1].time) > get_year(collection[2].time)
    /\ get_year(collection[2].time) = get_year(collection[3].time)
    /\ \E k \in 1..Len(filtered) : filtered[k] = <<>>

\* C6 (window filter): the filtered set of a year holds exactly the
\* observations acquired from start_day to end_day of that year, both
\* inclusive, whatever the time of day.
C6_WindowFilter ==
    \A k \in 1..Len(filtered) :
        filtered[k] = SelectSeq(collection, LAMBDA im : InWindow(im, years[k]))

\* An image acquired late on end_day is kept and one acquired at the start of
\* the following day is left out; one acquired late on the day before
\* start_day is left out too.
C6_Witness ==
    \E k \in 1..Len(filtered) :
        /\ \E i \in 1..Len(filtered[k]) :
             /\ DayOfYear(filtered[k][i].time) = DayIndex(end_day)
             /\ filtered[k][i].time % TicksPerDay = TicksPerDay - 1
        /\ \E i \in 1..Len(collection) :
             /\ get_year(collection[i].time) = years[k]
             /\ DayOfYear(collection[i].time) = DayIndex(end_day) + 1
             /\ collection[i].time % TicksPerDay = 0
        /\ Len(filtered[k]) < Len(collection)

\* C7 (composite timestamp), as claimed: every composite either pipeline
\* returns carries the timestamp January 1 of its year.
C7_CompositeTimestamp ==
    \A k \in 1..Len(result) :
        /\ "time_start" \in DOMAIN result[k].props
        /\ result[k].props.time_start = years[k] * DaysPerYear * TicksPerDay

\* The bands of a record of distance_from_median that are unmasked.
UnmaskedBands(rec) == {b \in Bands : rec.mask[b + 1]}

\* A record of an observation with some band masked and some band not.
PartlyMasked(rec) == UnmaskedBands(rec) # {} /\ UnmaskedBands(rec) # Bands

\* Four times the sum of (band value - median)^2 over the bands in B.
SqDist4Over(rec, med, B) ==
    LET d == [b \in Bands |-> IF b \in B THEN 2 * rec.val[b + 1] - med.val2[b] ELSE 0]
    IN  d[1] * d[1] + d[2] * d[2] + d[3] * d[3] + d[4] * d[4] + d[5] * d[5] + d[6] * d[6]

\* No composite that holds data has a masked band.
NeverPartlySelected ==
    \A k \in 1..Len(medoids) :
        HasData(medoids[k]) => \A n \in 1..(NumBands + 1) : medoids[k].mask[n]

\* C8 (whole-vector candidacy), as claimed: an observation with a band masked
\* is never selected, and no distance is computed for it from its unmasked
\* bands alone.
C8_WholeVectorOnly ==
    /\ NeverPartlySelected
    /\ \A k \in 1..Len(distances) :
         \A j \in 1..Len(distances[k]) :
             PartlyMasked(distances[k][j]) => ~distances[k][j].mask[1]

\* C8, amended: an observation with a band masked is never selected, and the
\* distance of the selected one is a sum over all 6 bands; the distance band
\* _euclidean_distance computes for a partly masked observation is the sum
\* over its unmasked bands alone, and its record is left out of the selection.
C8_WholeVectorSelected ==
    /\ NeverPartlySelected
    /\ \A k \in 1..Len(medoids) :
         HasData(medoids[k]) =>
             LET med == median(filtered[k])
             IN  \E j \in 1..Len(distances[k]) :
                     /\ UnmaskedBands(distances[k][j]) = Bands
                     /\ medoids[k].val = distances[k][j].val
                     /\ medoids[k].val[1] = SqDist4Over(distances[k][j], med, Bands)
    /\ \A k \in 1..Len(distances) :
         LET med == median(filtered[k])
         IN  \A j \in 1..Len(distances[k]) :
                 PartlyMasked(distances[k][j]) =>
                     /\ distances[k][j].mask[1]
                     /\ distances[k][j].val[1]
                          = SqDist4Over(distances[k][j], med, UnmaskedBands(distances[k][j]))

\* A year where a partly masked observation is nearer to the median, over its
\* unmasked bands, than every candidate, and another observation is selected.
C8_Witness ==
    \E k \in 1..Len(medoids) :
        /\ HasData(medoids[k])
        /\ \E j \in 1..Len(distances[k]) :
             /\ PartlyMasked(distances[k][j])
             /\ distances[k][j].val[1] < medoids[k].val[1]

----------------------------------------------------------------------------
(* _mask_landsat_sr, on an image of two pixels: a pixel is its pixel_qa   *)
(* value and the values and masks of its 6 bands.                          *)

\* The bits of pixel_qa that are drawn.
QaBits == 7

\* 1 << n
shift_left(n) == 2 ^ n

\* qa_band.bitwiseAnd(msk), bit by bit.
RECURSIVE bitwiseAnd(_, _)
bitwiseAnd(a, b) ==
    IF a = 0 \/ b = 0 THEN 0
    ELSE (a % 2) * (b % 2) + 2 * bitwiseAnd(a \div 2, b \div 2)

water_bit_msk == shift_left(2)
cloud_shadow_bit_msk == shift_left(3)
snow_bit_msk == shift_left(4)
cloud_bit_msk == shift_left(5)

\* qa_mask with the cloud shadow bit left out.
qa_mask_without_shadow(qa) ==
    /\ bitwiseAnd(qa, water_bit_msk) = 0
    /\ bitwiseAnd(qa, snow_bit_msk) = 0
    /\ bitwiseAnd(qa, cloud_bit_msk) = 0

\* qa_mask at a pixel.
qa_mask(qa) ==
    /\ bitwiseAnd(qa, water_bit_msk) = 0
    /\ bitwiseAnd(qa, cloud_shadow_bit_msk) = 0
    /\ bitwiseAnd(qa, snow_bit_msk) = 0
    /\ bitwiseAnd(qa, cloud_bit_msk) = 0

\* image.updateMask(mask): a band stays unmasked where it was unmasked and the
\* mask is not 0; the values of the unmasked bands and the grid are kept.
updateMask(image, mask) ==
    [p \in DOMAIN image |->
        [qa |-> image[p].qa,
         val |-> [b \in Bands |-> IF image[p].mask[b] /\ mask[p] THEN image[p].val[b] ELSE 0],
         mask |-> [b \in Bands |-> image[p].mask[b] /\ mask[p]]]]

mask_landsat_sr(image) ==
    updateMask(image, [p \in DOMAIN image |-> qa_mask(image[p].qa)])

RawPixel(qa, v) == [qa |-> qa, val |-> v.val, mask |-> v.mask]

\* The images tried: every pixel_qa value and band vector at the first pixel,
\* a clear or a cloudy pixel beside it.
RawImages ==
    {<<RawPixel(qa, v), RawPixel(other, Vec(MaxVal, 0))>> :
        qa \in 0..(2 ^ QaBits - 1), v \in Vectors, other \in {0, cloud_bit_msk}}

MaskInit ==
    /\ CompositorIdle
    /\ RoyIdle
    /\ MergeIdle
    /\ SegIdle
    /\ LTIdle
    /\ MainIdle
    /\ GediIdle
    /\ raw_image \in RawImages
    /\ masked_image = <<>>

MaskLandsatSr ==
    /\ raw_image # <<>>
    /\ masked_image = <<>>
    /\ masked_image' = mask_landsat_sr(raw_image)
    /\ UNCHANGED <<raw_image, compositor_vars, roy_vars, merge_vars, seg_vars, lt_vars, main_vars, gedi_vars>>

MaskNext == MaskLandsatSr

SpecMask == MaskInit /\ [][MaskNext]_vars

\* Bit n of a pixel_qa value.
Bit(qa, n) == (qa \div (2 ^ n)) % 2

\* C9 (QA masking): a band of a pixel that was unmasked before the masking is
\* unmasked after it if and only if bits 2 (water), 3 (cloud shadow), 4 (snow)
\* and 5 (cloud) of the pixel's QA value are all 0, whatever the other bits; a
\* band that was masked stays masked; the values of the bands that stay
\* unmasked and the grid are unchanged.
C9_QaMasking ==
    masked_image # <<>> =>
        /\ DOMAIN masked_image = DOMAIN raw_image
        /\ \A p \in DOMAIN raw_image :
             \A b \in Bands :
                 /\ raw_image[p].mask[b] =>
                      (masked_image[p].mask[b]
                         <=> (/\ Bit(raw_image[p].qa, 2) = 0
                              /\ Bit(raw_image[p].qa, 3) = 0
                              /\ Bit(raw_image[p].qa, 4) = 0
                              /\ Bit(raw_image[p].qa, 5) = 0))
                 /\ ~raw_image[p].mask[b] => ~masked_image[p].mask[b]
                 /\ masked_image[p].mask[b] =>
                      masked_image[p].val[b] = raw_image[p].val[b]

\* A pixel with bits 0, 1 and 6 set and bits 2 to 5 clear stays valid with
\* its values, beside a cloudy pixel that is masked.
C9_Witness ==
    /\ masked_image # <<>>
    /\ raw_image[1].qa = 1 + 2 + 64
    /\ \A b \in Bands : masked_image[1].mask[b] /\ masked_image[1].val[b] = MaxVal
    /\ \A b \in Bands : raw_image[2].mask[b] /\ ~masked_image[2].mask[b]

----------------------------------------------------------------------------
(* _harmonization_Roy, at one pixel of an image whose 6 bands are already  *)
(* renamed to B1,B2,B3,B4,B5,B7. The quotient is kept exact; on the valid  *)
(* range of the surface reflectance it truncates to the same integer as    *)
(* the double-precision quotient the code computes.                        *)

\* Digital numbers are drawn from -MaxDN..MaxDN.
MaxDN == 5000

\* The factor of intercepts.multiply(10000).
InterceptScale == 10000

\* The bounds of a 16-bit signed integer.
ShortMax == 32767
ShortMin == -32768

\* ee.Image.constant([0.9785, 0.9542, 0.9825, 1.0073, 1.0171, 0.9949]), in 1/10000.
slopes == <<9785, 9542, 9825, 10073, 10171, 9949>>

\* ee.Image.constant([-0.0095, -0.0016, -0.0022, -0.0021, -0.0030, 0.0029]), in 1/10000.
intercepts == <<-95, -16, -22, -21, -30, 29>>

\* The unit of slopes and intercepts.
CoefficientUnit == 10000

\* toShort rounding to the nearest integer instead.
toShort_rounded(num, den) ==
    LET q == (2 * num + den) \div (2 * den)
    IN  IF q > ShortMax THEN ShortMax ELSE IF q < ShortMin THEN ShortMin ELSE q

\* toShort() of the quotient num / den, den > 0: the fraction is dropped
\* (toward zero) and the value kept within the 16-bit range.
toShort(num, den) ==
    LET q == IF num >= 0 THEN num \div den ELSE -((-num) \div den)
    IN  IF q > ShortMax THEN ShortMax ELSE IF q < ShortMin THEN ShortMin ELSE q

\* image.subtract(intercepts.multiply(10000)).divide(slopes).toShort(), with
\* system:time_start set from the image.
_harmonization_Roy(image) ==
    [val |-> [b \in Bands |->
                toShort(image.val[b] * CoefficientUnit - intercepts[b] * InterceptScale,
                        slopes[b])],
     time_start |-> image.time_start]

\* The images tried: a digital number in the odd bands, its negative in the even ones.
OliImages ==
    {[val |-> [b \in Bands |-> IF b % 2 = 1 THEN d ELSE -d], time_start |-> TimeA] :
        d \in (-MaxDN)..MaxDN}

RoyInit ==
    /\ CompositorIdle
    /\ MaskIdle
    /\ MergeIdle
    /\ SegIdle
    /\ LTIdle
    /\ MainIdle
    /\ GediIdle
    /\ oli_image \in OliImages
    /\ tm_image = <<>>

HarmonizationRoy ==
    /\ oli_image # <<>>
    /\ tm_image = <<>>
    /\ tm_image' = _harmonization_Roy(oli_image)
    /\ UNCHANGED <<oli_image, compositor_vars, mask_vars, merge_vars, seg_vars, lt_vars, main_vars, gedi_vars>>

RoyNext == HarmonizationRoy

SpecRoy == RoyInit /\ [][RoyNext]_vars

\* z is the quotient num / den (den > 0) with its fraction dropped.
IsTruncationOf(z, num, den) ==
    IF num >= 0 THEN z >= 0 /\ z * den <= num /\ num < (z + 1) * den
    ELSE z <= 0 /\ z * den >= num /\ num > (z - 1) * den

\* Each band is (input - intercept*10000) / slope with the coefficients of its
\* canonical band, truncated toward zero.
TruncatedRecalibration ==
    \A b \in Bands :
        IsTruncationOf(tm_image.val[b],
                       (oli_image.val[b] - intercepts[b]) * 10000, slopes[b])

\* C10 (OLI recalibration), as claimed: each band of the result is
\* (input - intercept*10000) / slope truncated toward zero, and slope 0.9785,
\* intercept -0.0095 and input 5000 give 5207.
C10_OliRecalibrationAsClaimed ==
    tm_image # <<>> =>
        /\ TruncatedRecalibration
        /\ oli_image.val[1] = 5000 => tm_image.val[1] = 5207

\* C10, amended: each band of the result is (input - intercept*10000) / slope,
\* with the coefficients of its canonical band, truncated toward zero, for
\* positive and negative quotients alike; slope 0.9785, intercept -0.0095 and
\* input 5000 give 5206 (5095 / 0.9785 is 5206.94...).
C10_OliRecalibration ==
    tm_image # <<>> =>
        /\ TruncatedRecalibration
        /\ oli_image.val[1] = 5000 => tm_image.val[1] = 5206

\* The input 5000 in B1, whose quotient 5206.94 becomes 5206, beside the input
\* -5000 in B2, whose quotient -5223.22 becomes -5223.
C10_Witness ==
    /\ tm_image # <<>>
    /\ oli_image.val[1] = 5000
    /\ tm_image.val[1] = 5206
    /\ oli_image.val[2] = -5000
    /\ tm_image.val[2] = -5223

----------------------------------------------------------------------------
(* _build_TM_collection, _build_OLI_collection and _build_combined_Landsat, *)
(* at one pixel. An image is its acquisition time and its bands in order:   *)
(* their names, values and masks. A scene of a catalogue has the bands B1   *)
(* to B7 and pixel_qa.                                                      *)

\* Most scenes in the catalogue of a sensor.
MaxScenes == 2

\* The bands of a scene of "LANDSAT/<sensor>/C01/T1_SR" that the model keeps.
SceneBands == <<"B1", "B2", "B3", "B4", "B5", "B6", "B7", "pixel_qa">>

\* The position of a band in an image.
band_index(image, name) ==
    CHOOSE k \in 1..Len(image.names) : image.names[k] = name

\* image.select(input_bands, output_bands): the input bands in the order given,
\* under the output names.
select(image, input_bands, output_bands) ==
    [time |-> image.time,
     names |-> output_bands,
     val |-> [k \in 1..Len(input_bands) |-> image.val[band_index(image, input_bands[k])]],
     mask |-> [k \in 1..Len(input_bands) |-> image.mask[band_index(image, input_bands[k])]]]

\* image.resample("bilinear").set("system:time_start", ...): the values on the
\* image's own grid and the acquisition time are kept.
resample(image) == image

\* _mask_landsat_sr at one pixel of an image with named bands: every band is
\* masked where qa_mask of the pixel_qa band is 0.
_mask_landsat_sr(image) ==
    LET keep == qa_mask(image.val[band_index(image, "pixel_qa")])
    IN  [time |-> image.time,
         names |-> image.names,
         val |-> [k \in 1..Len(image.names) |->
                    IF image.mask[k] /\ keep THEN image.val[k] ELSE 0],
         mask |-> [k \in 1..Len(image.names) |-> image.mask[k] /\ keep]]

_prepare_images(image, input_bands, output_bands) ==
    select(_mask_landsat_sr(resample(image)), input_bands, output_bands)

_prepare_TM(image) ==
    _prepare_images(image,
                    <<"B1", "B2", "B3", "B4", "B5", "B7">>,
                    <<"B1", "B2", "B3", "B4", "B5", "B7">>)

\* _prepare_OLI selecting the bands of a TM scene.
_prepare_OLI_as_TM(image) ==
    _prepare_images(image,
                    <<"B1", "B2", "B3", "B4", "B5", "B7">>,
                    <<"B1", "B2", "B3", "B4", "B5", "B7">>)

_prepare_OLI(image) ==
    _prepare_images(image,
                    <<"B2", "B3", "B4", "B5", "B6", "B7">>,
                    <<"B1", "B2", "B3", "B4", "B5", "B7">>)

\* _harmonization_Roy on an image with named bands: the constant images of
\* the slopes and intercepts are matched to the bands by position, the names
\* and masks are those of the image.
map_harmonization_Roy(image) ==
    LET out == _harmonization_Roy([val |-> image.val, time_start |-> image.time])
    IN  [time |-> out.time_start,
         names |-> image.names,
         val |-> out.val,
         mask |-> image.mask]

\* The date bounds _build_combined_Landsat is called with.
QueryWindow == InnerWindow

\* ee.ImageCollection("LANDSAT/" + sensor + "/C01/T1_SR").filterBounds(aoi)
\*   .filterDate(start_year-start_day, (end_year-end_day).advance(1, "day"))
archive(scenes) ==
    filterDate(scenes,
               fromYMD(FirstYear, QueryWindow[1][1], QueryWindow[1][2]),
               advance_day(fromYMD(LastYear, QueryWindow[2][1], QueryWindow[2][2]), 1))

_build_TM_collection(scenes) ==
    LET coll == archive(scenes)
    IN  [i \in 1..Len(coll) |-> _prepare_TM(coll[i])]

_build_OLI_collection(scenes) ==
    LET coll == archive(scenes)
    IN  [i \in 1..Len(coll) |-> map_harmonization_Roy(_prepare_OLI(coll[i]))]

\* merge keeping one of the images that are equal.
merge_distinct(a, b) == distinct(a \o b)

\* a.merge(b): the images of a, then the images of b.
merge(a, b) == a \o b

\* A scene where band Bk holds 1000 * k, with its pixel_qa value.
Scene(t, qa) ==
    [time |-> t,
     names |-> SceneBands,
     val |-> [k \in 1..Len(SceneBands) |-> IF SceneBands[k] = "pixel_qa" THEN qa ELSE 1000 * k],
     mask |-> [k \in 1..Len(SceneBands) |-> TRUE]]

\* An instant before the first day of the query.
TimeBefore == fromYMD(FirstYear, 1, 1)

\* The catalogues tried: clear scenes at two instants of the query for every
\* sensor and, for LT05, a scene before the query and a cloudy one as well. A
\* catalogue lists the scenes of its sensor in the order of their acquisition.
ClearScenes == {Scene(t, 0) : t \in {TimeA, TimeB}}

Catalogs(sensor) ==
    LET scenes == IF sensor = "LT05"
                  THEN ClearScenes \cup {Scene(TimeBefore, 0), Scene(TimeA, cloud_bit_msk)}
                  ELSE ClearScenes
    IN  {<<>>} \cup {s \in SeqsUpTo(scenes, MaxScenes) :
                        \A i \in 1..(Len(s) - 1) : s[i].time <= s[i + 1].time}

Sensors == {"LT05", "LE07", "LC08"}

MergeInit ==
    /\ CompositorIdle
    /\ MaskIdle
    /\ RoyIdle
    /\ SegIdle
    /\ LTIdle
    /\ MainIdle
    /\ GediIdle
    /\ catalog \in [Sensors -> UNION {Catalogs(s) : s \in Sensors}]
    /\ \A s \in Sensors : catalog[s] \in Catalogs(s)
    /\ landsat5 = <<>>
    /\ landsat7 = <<>>
    /\ landsat8 = <<>>
    /\ combined = <<>>
    /\ merge_pc = "landsat5"

\* landsat5 = _build_TM_collection(sensor="LT05", ...)
BuildLandsat5 ==
    /\ merge_pc = "landsat5"
    /\ landsat5' = _build_TM_collection(catalog["LT05"])
    /\ merge_pc' = "landsat7"
    /\ UNCHANGED <<catalog, landsat7, landsat8, combined>>
    /\ UNCHANGED <<compositor_vars, mask_vars, roy_vars, seg_vars, lt_vars, main_vars, gedi_vars>>

\* landsat7 = _build_TM_collection(sensor="LE07", ...)
BuildLandsat7 ==
    /\ merge_pc = "landsat7"
    /\ landsat7' = _build_TM_collection(catalog["LE07"])
    /\ merge_pc' = "landsat8"
    /\ UNCHANGED <<catalog, landsat5, landsat8, combined>>
    /\ UNCHANGED <<compositor_vars, mask_vars, roy_vars, seg_vars, lt_vars, main_vars, gedi_vars>>

\* landsat8 = _build_OLI_collection(sensor="LC08", ...)
BuildLandsat8 ==
    /\ merge_pc = "landsat8"
    /\ landsat8' = _build_OLI_collection(catalog["LC08"])
    /\ merge_pc' = "merge"
    /\ UNCHANGED <<catalog, landsat5, landsat7, combined>>
    /\ UNCHANGED <<compositor_vars, mask_vars, roy_vars, seg_vars, lt_vars, main_vars, gedi_vars>>

\* return ee.ImageCollection(landsat5.merge(landsat7).merge(landsat8))
MergeLandsat ==
    /\ merge_pc = "merge"
    /\ combined' = merge(merge(landsat5, landsat7), landsat8)
    /\ merge_pc' = "done"
    /\ UNCHANGED <<catalog, landsat5, landsat7, landsat8>>
    /\ UNCHANGED <<compositor_vars, mask_vars, roy_vars, seg_vars, lt_vars, main_vars, gedi_vars>>

MergeNext ==
    \/ BuildLandsat5
    \/ BuildLandsat7
    \/ BuildLandsat8
    \/ MergeLandsat

SpecMerge == MergeInit /\ [][MergeNext]_vars

\* The canonical bands, in order, and the OLI band each is taken from.
CanonicalNames == <<"B1", "B2", "B3", "B4", "B5", "B7">>
OliSourceNames == <<"B2", "B3", "B4", "B5", "B6", "B7">>

\* The value of a named band of a scene.
SceneValue(scene, name) ==
    scene.val[CHOOSE k \in 1..Len(SceneBands) : SceneBands[k] = name]

\* A per-sensor series is the TM mapping of the scenes of the query, in order:
\* the 6 canonical bands, each with the value of the scene's band of the same
\* name wherever it holds data.
IsTmMapping(series, scenes) ==
    /\ Len(series) = Len(archive(scenes))
    /\ \A i \in 1..Len(series) :
         /\ series[i].names = CanonicalNames
         /\ Len(series[i].val) = NumBands
         /\ \A k \in Bands :
              series[i].mask[k] =>
                  series[i].val[k] = SceneValue(archive(scenes)[i], CanonicalNames[k])

\* A series is the OLI mapping of the scenes of the query, in order: the 6
\* canonical bands, the k-th being the recalibration, with the k-th slope and
\* intercept, of the scene's band OliSourceNames[k].
IsOliMapping(series, scenes) ==
    /\ Len(series) = Len(archive(scenes))
    /\ \A i \in 1..Len(series) :
         /\ series[i].names = CanonicalNames
         /\ Len(series[i].val) = NumBands
         /\ \A k \in Bands :
              series[i].mask[k] =>
                  IsTruncationOf(series[i].val[k],
                                 (SceneValue(archive(scenes)[i], OliSourceNames[k])
                                     - intercepts[k]) * 10000,
                                 slopes[k])

\* C11 (band mapping): the images of the two TM series have the bands
\* B1,B2,B3,B4,B5,B7 of their scenes under the same names with the values
\* unchanged; the images of the OLI series have the scene's bands
\* B2,B3,B4,B5,B6,B7 as B1,B2,B3,B4,B5,B7, the k-th recalibrated with the k-th
\* coefficient pair; every image of the merged series has exactly the 6
\* canonical bands in the order B1,B2,B3,B4,B5,B7.
C11_BandMapping ==
    /\ merge_pc \in {"landsat7", "landsat8", "merge", "done"} =>
           IsTmMapping(landsat5, catalog["LT05"])
    /\ merge_pc \in {"landsat8", "merge", "done"} =>
           IsTmMapping(landsat7, catalog["LE07"])
    /\ merge_pc \in {"merge", "done"} =>
           IsOliMapping(landsat8, catalog["LC08"])
    /\ merge_pc = "done" =>
           \A i \in 1..Len(combined) :
               combined[i].names = CanonicalNames /\ Len(combined[i].val) = NumBands

\* A TM scene whose B7 (7000) is the 6th canonical band, merged with an OLI
\* scene whose B6 (6000) became canonical B5: (6000 + 30) / 1.0171 = 5928.6.
C11_Witness ==
    /\ merge_pc = "done"
    /\ Len(landsat5) >= 1
    /\ landsat5[1].mask[6]
    /\ landsat5[1].val[6] = 7000
    /\ Len(landsat8) >= 1
    /\ landsat8[1].mask[5]
    /\ landsat8[1].val[5] = 5928
    /\ Len(combined) = Len(landsat5) + Len(landsat7) + 1

\* How many times an image occurs in a series.
Count(series, image) == Cardinality({i \in 1..Len(series) : series[i] = image})

Range(series) == {series[i] : i \in 1..Len(series)}

\* C12 (merge without deduplication): every image occurs in the merged series
\* as many times as it occurs in the three per-sensor series together, images
\* of two sensors with the same date (and the same values) included, and the
\* merged length is the sum of the three lengths.
C12_MergeKeepsAll ==
    merge_pc = "done" =>
        /\ Len(combined) = Len(landsat5) + Len(landsat7) + Len(landsat8)
        /\ \A image \in Range(combined) \cup Range(landsat5)
                            \cup Range(landsat7) \cup Range(landsat8) :
             Count(combined, image) =
                 Count(landsat5, image) + Count(landsat7, image) + Count(landsat8, image)

\* LT05 and LE07 have an image of the same date with the same values, and the
\* merged series holds it twice.
C12_Witness ==
    /\ merge_pc = "done"
    /\ Len(landsat5) >= 1
    /\ Len(landsat7) >= 1
    /\ landsat5[1] = landsat7[1]
    /\ Count(combined, landsat5[1]) = 2

\* C13 (merge ordering), as claimed: of two consecutive images of the merged
\* series the first has a timestamp less than or equal to the second.
C13_MergeOrderedByTime ==
    merge_pc = "done" =>
        \A i \in 1..(Len(combined) - 1) : combined[i].time <= combined[i + 1].time

----------------------------------------------------------------------------
(* earth-engine/landtrendr/postprocess.py, at one pixel. An array-valued    *)
(* pixel is the sequence of its rows (axis 0), a row the sequence of its    *)
(* entries along axis 1. The entries are kept exact: whole numbers, and for *)
(* a quotient its numerator and its (positive) denominator.                 *)

INDEX_DICT ==
    [NDVI |-> [dist_dir |-> -1, bands |-> <<"B4", "B3">>],
     NBR |-> [dist_dir |-> -1, bands |-> <<"B4", "B7">>]]

\* The except branch of the lookup INDEX_DICT[index]: the exception raised,
\* or "none".
index_error(index) ==
    IF index \in DOMAIN INDEX_DICT THEN "none"
    ELSE IF index \in {"NDSI", "NDMI", "TCB", "TCG", "TCW", "TCA", "NBR2"}
         THEN "NotImplementedError"
         ELSE "RuntimeError"

\* The end of a slice of an axis of length n: a negative end counts from the
\* end of the axis.
slice_end(n, end) == IF end < 0 THEN n + end ELSE IF end > n THEN n ELSE end

\* image.arraySlice(axis, start, end)
arraySlice(array, axis, start, end) ==
    IF axis = 0 THEN SubSeq(array, start + 1, slice_end(Len(array), end))
    ELSE [r \in 1..Len(array) |->
             SubSeq(array[r], start + 1, slice_end(Len(array[r]), end))]

\* image.arraySlice(axis, start, None): to the end of the axis.
arraySliceToEnd(array, axis, start) ==
    IF axis = 0 THEN SubSeq(array, start + 1, Len(array))
    ELSE [r \in 1..Len(array) |-> SubSeq(array[r], start + 1, Len(array[r]))]

\* The entries of a row where the flag is not 0.
RECURSIVE keep_flagged(_, _)
keep_flagged(row, flags) ==
    IF row = <<>> THEN <<>>
    ELSE (IF Head(flags) # 0 THEN <<Head(row)>> ELSE <<>>)
             \o keep_flagged(Tail(row), Tail(flags))

\* arrayMask keeping every entry.
arrayMask_keep_all(array, mask) == array

\* image.arrayMask(mask), the mask being one row: the entries of every row
\* where the mask is not 0.
arrayMask(array, mask) ==
    [r \in 1..Len(array) |-> keep_flagged(array[r], mask[1])]

\* array.multiply(k), array.add(k), a.subtract(b): entry by entry.
multiply(array, k) ==
    [r \in 1..Len(array) |-> [c \in 1..Len(array[r]) |-> array[r][c] * k]]

add(array, k) ==
    [r \in 1..Len(array) |-> [c \in 1..Len(array[r]) |-> array[r][c] + k]]

subtract(a, b) ==
    [r \in 1..Len(a) |-> [c \in 1..Len(a[r]) |-> a[r][c] - b[r][c]]]

\* The quotient x / y of Earth Engine's divide, which is 0 for a division by 0.
quotient(x, y) ==
    IF y = 0 THEN [num |-> 0, den |-> 1]
    ELSE IF y > 0 THEN [num |-> x, den |-> y]
    ELSE [num |-> -x, den |-> -y]

\* a.divide(b), entry by entry, and a.divide(band) by the value of a band.
divide(a, b) ==
    [r \in 1..Len(a) |-> [c \in 1..Len(a[r]) |-> quotient(a[r][c], b[r][c])]]

divide_by_band(a, value) ==
    [r \in 1..Len(a) |-> [c \in 1..Len(a[r]) |-> quotient(a[r][c], value)]]

\* dur with the year after the first vertex as the start.
dur_from_next_year(end_year, start_year) == subtract(end_year, add(start_year, 1))

\* dur with the operands exchanged.
dur_exchanged(end_year, start_year) == subtract(start_year, end_year)

\* dur = end_year.subtract(start_year)
dur(end_year, start_year) == subtract(end_year, start_year)

\* mag without the second multiplication by dist_dir.
mag_not_reoriented(end_val, start_val, dist_dir) == subtract(end_val, start_val)

\* mag = end_val.subtract(start_val).multiply(dist_dir)
mag(end_val, start_val, dist_dir) == multiply(subtract(end_val, start_val), dist_dir)

\* ee.Image.cat([...]).toArray(0): the rows of the images, one under the other.
cat_toArray(images) == [r \in 1..Len(images) |-> images[r][1]]

\* get_segment_data once the index is known: the array of 8 rows, masked
\* where the Landtrendr output is masked.
get_segment_data(lt, index, right) ==
    LET lt_output == lt.LandTrendr
        vertex_mask == arraySlice(lt_output, 0, 3, 4)
        vertices == arrayMask(lt_output, vertex_mask)
        index_info == INDEX_DICT[index]
        dist_dir == IF right THEN index_info.dist_dir ELSE 1
        left == arraySlice(vertices, 1, 0, -1)
        right_slice == arraySliceToEnd(vertices, 1, 1)
        start_year == arraySlice(left, 0, 0, 1)
        start_val == multiply(arraySlice(left, 0, 2, 3), dist_dir)
        end_year == arraySlice(right_slice, 0, 0, 1)
        end_val == multiply(arraySlice(right_slice, 0, 2, 3), dist_dir)
        mag_ == mag(end_val, start_val, dist_dir)
        dur_ == dur(end_year, start_year)
        rate == divide(mag_, dur_)
        dsnr == divide_by_band(mag_, lt.rmse)
    IN  [masked |-> lt.masked,
         array |-> IF lt.masked THEN <<>>
                   ELSE cat_toArray(<<add(start_year, 1), end_year, start_val,
                                      end_val, mag_, dur_, rate, dsnr>>)]

\* array.gte(k), array.lte(k): 1 where the comparison holds, else 0.
gte(array, k) ==
    [r \in 1..Len(array) |-> [c \in 1..Len(array[r]) |-> IF array[r][c] >= k THEN 1 ELSE 0]]

lte(array, k) ==
    [r \in 1..Len(array) |-> [c \in 1..Len(array[r]) |-> IF array[r][c] <= k THEN 1 ELSE 0]]

\* array.gte(k) on a row of quotients.
gte_quotient(array, k) ==
    [r \in 1..Len(array) |->
        [c \in 1..Len(array[r]) |->
            IF array[r][c].num >= k * array[r][c].den THEN 1 ELSE 0]]

\* a.And(b): 1 where both are not 0.
And(a, b) ==
    [r \in 1..Len(a) |->
        [c \in 1..Len(a[r]) |-> IF a[r][c] # 0 /\ b[r][c] # 0 THEN 1 ELSE 0]]

\* The mask without the bound on the end year.
segment_mask_without_end_year(LT_segments, start_year, end_year, dsnr_threshold) ==
    LET start_years == arraySlice(LT_segments, 0, 0, 1)
        dsnr == arraySlice(LT_segments, 0, 7, 8)
    IN  And(gte(start_years, start_year), gte_quotient(dsnr, dsnr_threshold))

\* The mask without the threshold on the signal-to-noise ratio.
segment_mask_without_dsnr(LT_segments, start_year, end_year, dsnr_threshold) ==
    LET start_years == arraySlice(LT_segments, 0, 0, 1)
        end_years == arraySlice(LT_segments, 0, 1, 2)
    IN  And(gte(start_years, start_year), lte(end_years, end_year))

\* mask = start_years.gte(start_year).And(end_years.lte(end_year))
\*            .And(dsnr.gte(dsnr_threshold))
segment_mask(LT_segments, start_year, end_year, dsnr_threshold) ==
    LET start_years == arraySlice(LT_segments, 0, 0, 1)
        end_years == arraySlice(LT_segments, 0, 1, 2)
        dsnr == arraySlice(LT_segments, 0, 7, 8)
    IN  And(And(gte(start_years, start_year), lte(end_years, end_year)),
            gte_quotient(dsnr, dsnr_threshold))

\* sort_by without the factor of -1.
sort_by_not_negated(masked_segments) == arraySlice(masked_segments, 0, 0, 1)

\* sort_by = masked_segments.arraySlice(0, 0, 1).toArray(0).multiply(-1)
sort_by(masked_segments) == multiply(arraySlice(masked_segments, 0, 0, 1), -1)

Orderings(n) ==
    {p \in [1..n -> 1..n] : \A i, j \in 1..n : i # j => p[i] # p[j]}

\* array.arraySort(keys), the keys being one row: the entries of every row
\* rearranged so that the keys ascend. The order of entries with equal keys
\* is not fixed: every array the sort can return.
arraySort(array, keys) ==
    UNION {{[r \in 1..Len(a) |-> [c \in 1..Len(k) |-> a[r][p[c]]]] :
               p \in {q \in Orderings(Len(k)) :
                         \A c \in 1..(Len(k) - 1) : k[q[c]] <= k[q[c + 1]]}} :
           a \in {array}, k \in {keys[1]}}

\* extract_deforestation_events: every image it can return.
extract_deforestation_events(LT_segments, start_year, end_year, dsnr_threshold) ==
    IF LT_segments.masked THEN {[masked |-> TRUE, array |-> <<>>]}
    ELSE UNION {{[masked |-> FALSE, array |-> arraySlice(segments_sorted, 1, 0, 1)] :
                    segments_sorted \in arraySort(masked_segments, sort_by(masked_segments))} :
                masked_segments \in
                    {arrayMask(LT_segments.array,
                               segment_mask(LT_segments.array, start_year, end_year,
                                            dsnr_threshold))}}

\* Most entries (years of the series) in a LandTrendr array.
MaxColumns == 3
\* The greatest number of years between two consecutive entries.
MaxStep == 5
\* The greatest fitted value.
MaxFit == 200
\* The greatest rmse.
MaxRmse == 50

\* The year of the first entry.
BaseYear == FirstYear + 15

\* The steps tried between the years of consecutive entries: the same year
\* again, the next year, and MaxStep years later.
Steps == {0, 1, MaxStep}

FitValues == {MaxFit \div 4, MaxFit}

\* The rows of years of n entries: non-decreasing from BaseYear.
YearRows(n) ==
    {[i \in 1..n |-> BaseYear + SumSeq(SubSeq(st, 1, i - 1))] : st \in [1..(n - 1) -> Steps]}

\* The rows of vertex flags: the first and the last entry are vertices.
VertexRows(n) == {f \in [1..n -> {0, 1}] : f[1] = 1 /\ f[n] = 1}

\* The LandTrendr array: the rows year, source value, fitted value, is-vertex.
LandTrendrArray(ys, fit, isv) ==
    <<ys, [i \in 1..Len(fit) |-> fit[i] + 7], fit, isv>>

LandTrendrArrays ==
    UNION {{LandTrendrArray(ys, fit, isv) :
                ys \in YearRows(n), fit \in [1..n -> FitValues], isv \in VertexRows(n)} :
           n \in 2..MaxColumns}

\* The Landtrendr outputs tried: every array with rmse 0 or MaxRmse and, for
\* one array, a masked pixel.
ExampleArray ==
    LandTrendrArray(<<BaseYear, BaseYear + MaxStep>>, <<MaxFit, MaxFit \div 4>>, <<1, 1>>)

LTResults ==
    {[LandTrendr |-> a, rmse |-> r, masked |-> FALSE] :
        a \in LandTrendrArrays, r \in {0, MaxRmse}}
      \cup {[LandTrendr |-> ExampleArray, rmse |-> MaxRmse, masked |-> TRUE]}

\* The calls tried: the supported indices on every output, a known index
\* that is not supported and an unknown name on one output.
SegInit ==
    /\ CompositorIdle
    /\ MaskIdle
    /\ RoyIdle
    /\ MergeIdle
    /\ LTIdle
    /\ MainIdle
    /\ GediIdle
    /\ LT_result \in LTResults
    /\ seg_right \in BOOLEAN
    /\ \/ seg_index \in {"NDVI", "NBR"}
       \/ /\ seg_index \in {"NDMI", "EVI"}
          /\ LT_result.LandTrendr = ExampleArray
          /\ ~LT_result.masked
    /\ seg_info = <<>>
    /\ events_start_year = 0
    /\ events_end_year = 0
    /\ events_dsnr_threshold = 0
    /\ events = <<>>
    /\ flattened_image = <<>>
    /\ seg_pc = "segments"
    /\ seg_failure = "none"

\* LT_segments = get_segment_data(LT_result, index, right)
GetSegmentData ==
    /\ seg_pc = "segments"
    /\ index_error(seg_index) = "none"
    /\ seg_info' = get_segment_data(LT_result, seg_index, seg_right)
    /\ seg_pc' = "events"
    /\ UNCHANGED <<LT_result, seg_index, seg_right, events_start_year, events_end_year,
                   events_dsnr_threshold, events, flattened_image, seg_failure>>
    /\ UNCHANGED <<compositor_vars, mask_vars, roy_vars, merge_vars, lt_vars, main_vars, gedi_vars>>

\* The same when the index is not a key of INDEX_DICT: the exception is raised.
GetSegmentDataRaises ==
    /\ seg_pc = "segments"
    /\ index_error(seg_index) # "none"
    /\ seg_failure' = index_error(seg_index)
    /\ seg_pc' = "failed"
    /\ UNCHANGED <<LT_result, seg_index, seg_right, seg_info, events_start_year,
                   events_end_year, events_dsnr_threshold, events, flattened_image>>
    /\ UNCHANGED <<compositor_vars, mask_vars, roy_vars, merge_vars, lt_vars, main_vars, gedi_vars>>

\* The bounds and thresholds tried.
MaxThreshold == 3

StartYears == {BaseYear + 1, BaseYear + 2}
EndYears == {BaseYear + MaxStep, BaseYear + 2 * MaxStep}
Thresholds == {-MaxThreshold, 0, MaxThreshold}

\* events = extract_deforestation_events(LT_segments, start_year, end_year, dsnr_threshold)
ExtractDeforestationEvents ==
    /\ seg_pc = "events"
    /\ \E start_year \in StartYears, end_year \in EndYears, dsnr_threshold \in Thresholds :
         /\ events_start_year' = start_year
         /\ events_end_year' = end_year
         /\ events_dsnr_threshold' = dsnr_threshold
         /\ events' \in extract_deforestation_events(seg_info, start_year, end_year,
                                                     dsnr_threshold)
    /\ seg_pc' = "done"
    /\ UNCHANGED <<LT_result, seg_index, seg_right, seg_info, flattened_image, seg_failure>>
    /\ UNCHANGED <<compositor_vars, mask_vars, roy_vars, merge_vars, lt_vars, main_vars, gedi_vars>>

\* array.arrayProject([1]) of an array of one row: the row, as an array of
\* one axis.
arrayProject(array) == array[1]

\* array.arrayFlatten([labels]) of an array of one axis: one band for each
\* label, holding the entry at its position. The source hands it arrays of
\* length 0 (no unmask, no padding before it); what Earth Engine computes for
\* a pixel whose array has not as many entries as there are labels is not
\* fixed by the source: with mismatch_raises the computation of the image
\* fails, without it the pixel holds no data in these bands.
arrayFlatten(array, labels, mismatch_raises) ==
    [names |-> labels,
     val |-> [k \in 1..Len(labels) |-> IF Len(array) = Len(labels) THEN array[k] ELSE 0],
     mask |-> [k \in 1..Len(labels) |-> Len(array) = Len(labels)],
     raised |-> Len(array) # Len(labels) /\ mismatch_raises]

\* ee.Image.cat(images): the bands of the images, one after the other; its
\* computation fails where the computation of one of the images fails.
RECURSIVE cat(_)
cat(images) ==
    IF images = <<>> THEN [names |-> <<>>, val |-> <<>>, mask |-> <<>>, raised |-> FALSE]
    ELSE LET rest == cat(Tail(images))
         IN  [names |-> Head(images).names \o rest.names,
              val |-> Head(images).val \o rest.val,
              mask |-> Head(images).mask \o rest.mask,
              raised |-> Head(images).raised \/ rest.raised]

\* An image of 8 bands with no data at the pixel.
no_data_image(labels) ==
    [names |-> labels,
     val |-> [k \in 1..Len(labels) |-> 0],
     mask |-> [k \in 1..Len(labels) |-> FALSE],
     raised |-> FALSE]

\* flattened_image with endVal read from the row of startVal.
flattened_endVal_from_startVal(ev, mismatch_raises) ==
    IF ev.masked
    THEN no_data_image(<<"yod", "endYr", "startVal", "endVal", "mag", "dur", "rate", "dsnr">>)
    ELSE cat(<<arrayFlatten(arrayProject(arraySlice(ev.array, 0, 0, 1)), <<"yod">>, mismatch_raises),
               arrayFlatten(arrayProject(arraySlice(ev.array, 0, 1, 2)), <<"endYr">>, mismatch_raises),
               arrayFlatten(arrayProject(arraySlice(ev.array, 0, 2, 3)), <<"startVal">>, mismatch_raises),
               arrayFlatten(arrayProject(arraySlice(ev.array, 0, 2, 3)), <<"endVal">>, mismatch_raises),
               arrayFlatten(arrayProject(arraySlice(ev.array, 0, 4, 5)), <<"mag">>, mismatch_raises),
               arrayFlatten(arrayProject(arraySlice(ev.array, 0, 5, 6)), <<"dur">>, mismatch_raises),
               arrayFlatten(arrayProject(arraySlice(ev.array, 0, 6, 7)), <<"rate">>, mismatch_raises),
               arrayFlatten(arrayProject(arraySlice(ev.array, 0, 7, 8)), <<"dsnr">>, mismatch_raises)>>)

\* flattened_image = ee.Image.cat(events.arraySlice(0, 0, 1).arrayProject([1])
\*     .arrayFlatten([["yod"]]), ...), masked where events is masked; raised
\* tells that the computation of the image fails at the pixel.
flattened(ev, mismatch_raises) ==
    IF ev.masked
    THEN no_data_image(<<"yod", "endYr", "startVal", "endVal", "mag", "dur", "rate", "dsnr">>)
    ELSE cat(<<arrayFlatten(arrayProject(arraySlice(ev.array, 0, 0, 1)), <<"yod">>, mismatch_raises),
               arrayFlatten(arrayProject(arraySlice(ev.array, 0, 1, 2)), <<"endYr">>, mismatch_raises),
               arrayFlatten(arrayProject(arraySlice(ev.array, 0, 2, 3)), <<"startVal">>, mismatch_raises),
               arrayFlatten(arrayProject(arraySlice(ev.array, 0, 3, 4)), <<"endVal">>, mismatch_raises),
               arrayFlatten(arrayProject(arraySlice(ev.array, 0, 4, 5)), <<"mag">>, mismatch_raises),
               arrayFlatten(arrayProject(arraySlice(ev.array, 0, 5, 6)), <<"dur">>, mismatch_raises),
               arrayFlatten(arrayProject(arraySlice(ev.array, 0, 6, 7)), <<"rate">>, mismatch_raises),
               arrayFlatten(arrayProject(arraySlice(ev.array, 0, 7, 8)), <<"dsnr">>, mismatch_raises)>>)

\* extract_deforested_regions, which calls get_segment_data with right = True:
\* flattened_image = ee.Image.cat(...); return flattened_image
\* The image is computed at the pixel without an error.
FlattenEvents ==
    /\ seg_pc = "done"
    /\ seg_right
    /\ \E mismatch_raises \in BOOLEAN :
         LET image == flattened(events, mismatch_raises)
         IN  /\ ~image.raised
             /\ flattened_image' = [names |-> image.names, val |-> image.val,
                                    mask |-> image.mask]
    /\ seg_pc' = "flattened"
    /\ UNCHANGED <<LT_result, seg_index, seg_right, seg_info, events_start_year,
                   events_end_year, events_dsnr_threshold, events, seg_failure>>
    /\ UNCHANGED <<compositor_vars, mask_vars, roy_vars, merge_vars, lt_vars, main_vars, gedi_vars>>

\* The same lines where the computation of the image fails at the pixel: an
\* arrayFlatten met an array of the wrong length and Earth Engine answers
\* with an error (ee.EEException in the client).
FlattenEventsFails ==
    /\ seg_pc = "done"
    /\ seg_right
    /\ \E mismatch_raises \in BOOLEAN : flattened(events, mismatch_raises).raised
    /\ seg_failure' = "EEException"
    /\ seg_pc' = "flatten_failed"
    /\ UNCHANGED <<LT_result, seg_index, seg_right, seg_info, events_start_year,
                   events_end_year, events_dsnr_threshold, events, flattened_image>>
    /\ UNCHANGED <<compositor_vars, mask_vars, roy_vars, merge_vars, lt_vars, main_vars, gedi_vars>>

SegNext ==
    \/ GetSegmentData
    \/ GetSegmentDataRaises
    \/ ExtractDeforestationEvents
    \/ FlattenEvents
    \/ FlattenEventsFails

SpecSeg == SegInit /\ [][SegNext]_vars

----------------------------------------------------------------------------
(* The claims on the segments. A vertex is an entry of the LandTrendr array *)
(* whose is-vertex flag is set; the helpers read the vertices from the      *)
(* array and the fields of a segment from the image get_segment_data        *)
(* returned.                                                                *)

VertexColumns ==
    {c \in 1..Len(LT_result.LandTrendr[1]) : LT_result.LandTrendr[4][c] # 0}

NumVertices == Cardinality(VertexColumns)

\* The column of the i-th vertex.
VertexColumn(i) ==
    CHOOSE c \in VertexColumns : Cardinality({d \in VertexColumns : d < c}) = i - 1

VertexYear(i) == LT_result.LandTrendr[1][VertexColumn(i)]
VertexValue(i) == LT_result.LandTrendr[3][VertexColumn(i)]

\* get_segment_data has just returned, and the pixel holds data; the later
\* steps leave seg_info as it is.
Segmented == seg_pc = "events" /\ ~seg_info.masked

\* The fields of the i-th segment.
SegStartYear(i) == seg_info.array[1][i]
SegEndYear(i) == seg_info.array[2][i]
SegStartVal(i) == seg_info.array[3][i]
SegEndVal(i) == seg_info.array[4][i]
SegMag(i) == seg_info.array[5][i]
SegDur(i) == seg_info.array[6][i]
SegRate(i) == seg_info.array[7][i]
SegDsnr(i) == seg_info.array[8][i]

NumFields == 8
Segments == 1..(NumVertices - 1)

\* C14 (segment pairing): N vertices give exactly N-1 segments, each with its
\* 8 fields, the i-th with start_year = v_i.year + 1 and end_year =
\* v_(i+1).year.
C14_SegmentPairing ==
    Segmented =>
        /\ Len(seg_info.array) = NumFields
        /\ \A r \in 1..NumFields : Len(seg_info.array[r]) = NumVertices - 1
        /\ \A i \in Segments :
             /\ SegStartYear(i) = VertexYear(i) + 1
             /\ SegEndYear(i) = VertexYear(i + 1)

\* Three entries of which the second is no vertex and lies in an earlier year
\* than the third: one segment, from the first entry to the third.
C14_Witness ==
    /\ Segmented
    /\ LT_result.LandTrendr[4] = <<1, 0, 1>>
    /\ LT_result.LandTrendr[1][2] = BaseYear + 1
    /\ LT_result.LandTrendr[1][3] = BaseYear + 1 + MaxStep
    /\ Len(seg_info.array[1]) = 1
    /\ SegStartYear(1) = BaseYear + 1
    /\ SegEndYear(1) = BaseYear + 1 + MaxStep

\* C15 (segment duration), as claimed: the duration is the emitted end_year
\* minus the emitted start_year; vertices at years 2000 and 2005 give
\* start_year 2001, end_year 2005 and duration 4.
C15_DurationOfEmittedYears ==
    Segmented =>
        \A i \in Segments :
            /\ SegDur(i) = SegEndYear(i) - SegStartYear(i)
            /\ (VertexYear(i) = 2000 /\ VertexYear(i + 1) = 2005) =>
                   (SegStartYear(i) = 2001 /\ SegEndYear(i) = 2005 /\ SegDur(i) = 4)

\* C15, amended: the duration is the year of the second vertex minus the year
\* of the first, that is the emitted end_year minus the emitted start_year
\* plus 1; vertices at years 2000 and 2005 give start_year 2001, end_year
\* 2005 and duration 5.
C15_Duration ==
    Segmented =>
        \A i \in Segments :
            /\ SegDur(i) = VertexYear(i + 1) - VertexYear(i)
            /\ SegDur(i) = SegEndYear(i) - SegStartYear(i) + 1
            /\ (VertexYear(i) = 2000 /\ VertexYear(i + 1) = 2005) =>
                   (SegStartYear(i) = 2001 /\ SegEndYear(i) = 2005 /\ SegDur(i) = 5)

C15_Witness ==
    /\ Segmented
    /\ NumVertices = 2
    /\ VertexYear(1) = 2000
    /\ VertexYear(2) = 2005
    /\ SegStartYear(1) = 2001
    /\ SegEndYear(1) = 2005
    /\ SegDur(1) = 5

\* The direction sign of the indices (both have a loss as a decrease).
DirectionSign(name) == -1

\* dir: the index's sign when the orientation is corrected, else +1.
Dir == IF seg_right THEN DirectionSign(seg_index) ELSE 1

\* C16 (segment values and magnitude): start_val = v_i.value * dir, end_val =
\* v_(i+1).value * dir and magnitude = (end_val - start_val) * dir; values 200
\* and 50 with dir = -1 give start_val -200, end_val -50, magnitude -150.
C16_ValuesAndMagnitude ==
    Segmented =>
        \A i \in Segments :
            /\ SegStartVal(i) = VertexValue(i) * Dir
            /\ SegEndVal(i) = VertexValue(i + 1) * Dir
            /\ SegMag(i) = (SegEndVal(i) - SegStartVal(i)) * Dir
            /\ (VertexValue(i) = 200 /\ VertexValue(i + 1) = 50 /\ Dir = -1) =>
                   (SegStartVal(i) = -200 /\ SegEndVal(i) = -50 /\ SegMag(i) = -150)

C16_Witness ==
    /\ Segmented
    /\ seg_right
    /\ VertexValue(1) = 200
    /\ VertexValue(2) = 50
    /\ SegStartVal(1) = -200
    /\ SegEndVal(1) = -50
    /\ SegMag(1) = -150

\* A quotient that is no number.
IsNoData(q) == q.den = 0

\* q is the quotient x / y, y not 0.
IsQuotient(q, x, y) == q.den # 0 /\ q.num * y = x * q.den

\* C17 (zero denominators), as claimed: rate = magnitude / duration and
\* signal-to-noise = magnitude / rmse; rate is no-data exactly when the
\* duration is 0 and signal-to-noise exactly when rmse is 0, never an error
\* and never a number such as 0.
C17_ZeroDenominatorsNoData ==
    Segmented =>
        /\ seg_failure = "none"
        /\ \A i \in Segments :
             /\ IsNoData(SegRate(i)) <=> SegDur(i) = 0
             /\ SegDur(i) # 0 => IsQuotient(SegRate(i), SegMag(i), SegDur(i))
             /\ IsNoData(SegDsnr(i)) <=> LT_result.rmse = 0
             /\ LT_result.rmse # 0 => IsQuotient(SegDsnr(i), SegMag(i), LT_result.rmse)

\* The years of the vertices never decrease.
YearsNonDecreasing ==
    \A i \in Segments : VertexYear(i) <= VertexYear(i + 1)

\* C18 (duration non-negativity): for at least 2 vertices whose years never
\* decrease, every segment has a duration of at least 0.
C18_DurationNonNegative ==
    (Segmented /\ NumVertices >= 2 /\ YearsNonDecreasing) =>
        \A i \in Segments : SegDur(i) >= 0

\* Three vertices, the first two in the same year: durations 0 and MaxStep.
C18_Witness ==
    /\ Segmented
    /\ NumVertices = 3
    /\ VertexYear(1) = VertexYear(2)
    /\ VertexYear(3) = VertexYear(2) + MaxStep
    /\ SegDur(1) = 0
    /\ SegDur(2) = MaxStep

----------------------------------------------------------------------------
(* The claims on the selection of the event. *)

\* extract_deforestation_events has returned, and the pixel holds data.
Selected == seg_pc \in {"done", "flattened"} /\ ~events.masked

\* The segments get_segment_data emitted.
EmittedSegments == 1..Len(seg_info.array[1])

\* The i-th segment: its 8 fields.
Segment(i) == [r \in 1..NumFields |-> seg_info.array[r][i]]

\* The events emitted for the pixel, each with its 8 fields.
EmittedEvents ==
    {[r \in 1..NumFields |-> events.array[r][c]] : c \in 1..Len(events.array[1])}

\* A quotient is at least a whole number.
AtLeast(q, k) == q.den # 0 /\ q.num >= k * q.den

\* The segment passes the filter: start_year >= lo, end_year <= hi and
\* signal-to-noise >= tau.
Qualifies(segment) ==
    /\ segment[1] >= events_start_year
    /\ segment[2] <= events_end_year
    /\ AtLeast(segment[8], events_dsnr_threshold)

\* The segment lies on the three bounds.
OnTheBounds(segment) ==
    /\ segment[1] = events_start_year
    /\ segment[2] = events_end_year
    /\ IsQuotient(segment[8], events_dsnr_threshold, 1)

\* C19 (selector bound): no emitted event has start_year < lo, end_year > hi
\* or signal-to-noise < tau, and a segment with start_year = lo, end_year = hi
\* and signal-to-noise = tau qualifies: with such a segment an event is
\* emitted, and when it is the only segment it is the event.
C19_SelectorBound ==
    Selected =>
        /\ \A event \in EmittedEvents :
             /\ ~(event[1] < events_start_year)
             /\ ~(event[2] > events_end_year)
             /\ AtLeast(event[8], events_dsnr_threshold)
        /\ \A i \in EmittedSegments :
             OnTheBounds(Segment(i)) =>
                 /\ EmittedEvents # {}
                 /\ Len(seg_info.array[1]) = 1 => EmittedEvents = {Segment(i)}

\* The one segment 2001..2005 with signal-to-noise 150 / 50 = 3 is emitted
\* for lo = 2001, hi = 2005 and tau = 3.
C19_Witness ==
    /\ Selected
    /\ Len(seg_info.array[1]) = 1
    /\ OnTheBounds(Segment(1))
    /\ events_dsnr_threshold = MaxThreshold
    /\ events_start_year = BaseYear + 1
    /\ events_end_year = BaseYear + MaxStep
    /\ EmittedEvents = {Segment(1)}

\* The segments of the pixel that pass the filter.
Qualifying == {i \in EmittedSegments : Qualifies(Segment(i))}

\* C20 (most recent event): at most one event is emitted per pixel and, when
\* at least one segment passes the filter, the event is a segment that passes
\* it and whose start_year is the greatest among those that pass it.
C20_MostRecentEvent ==
    Selected =>
        /\ Len(events.array) = NumFields
        /\ \A r \in 1..NumFields : Len(events.array[r]) <= 1
        /\ Qualifying # {} =>
             \E i \in Qualifying :
                 /\ EmittedEvents = {Segment(i)}
                 /\ \A j \in Qualifying : SegStartYear(j) <= SegStartYear(i)

\* Two segments pass the filter, the first starting in 2001 and the second
\* in 2002: the second is the event.
C20_Witness ==
    /\ Selected
    /\ Len(seg_info.array[1]) = 2
    /\ Qualifying = {1, 2}
    /\ SegStartYear(1) = BaseYear + 1
    /\ SegStartYear(2) = BaseYear + 2
    /\ EmittedEvents = {Segment(2)}

\* ---- Flattening (extract_deforested_regions) ----

\* extract_deforested_regions has returned its image for the pixel.
Flattened == seg_pc = "flattened"

\* The pixel has a segment that passes the filter.
HasQualifying == ~seg_info.masked /\ Qualifying # {}

\* The names of the channels, in the order of the specification.
ChannelNames == <<"yod", "endYr", "startVal", "endVal", "mag", "dur", "rate", "dsnr">>

\* The fields of the i-th emitted segment, in the order of the specification.
FieldsInOrder(i) ==
    <<SegStartYear(i), SegEndYear(i), SegStartVal(i), SegEndVal(i),
      SegMag(i), SegDur(i), SegRate(i), SegDsnr(i)>>

\* C22 (flattening): the channels yod, endYr, startVal, endVal, mag, dur,
\* rate, dsnr hold, in this order, start_year, end_year, start_val, end_val,
\* magnitude, duration, rate and signal-to-noise of one and the same selected
\* segment.
C22_Flattening ==
    (Flattened /\ HasQualifying) =>
        /\ flattened_image.names = ChannelNames
        /\ \E i \in Qualifying :
             \A k \in 1..NumFields :
                 /\ flattened_image.mask[k]
                 /\ flattened_image.val[k] = FieldsInOrder(i)[k]

\* A pixel with two qualifying segments of different values whose channels
\* hold the fields of one of them, start and end value being different.
C22_Witness ==
    /\ Flattened
    /\ HasQualifying
    /\ Cardinality(Qualifying) >= 2
    /\ flattened_image.val[3] # flattened_image.val[4]
    /\ \E i \in Qualifying :
         \A k \in 1..NumFields : flattened_image.val[k] = FieldsInOrder(i)[k]

\* ---- Orientation and loss ----

\* What get_segment_data returns for the same Landtrendr output and index with
\* the other value of right.
OtherOrientation == get_segment_data(LT_result, seg_index, ~seg_right)

\* The rows of the segment array: values, magnitude, duration, rate, dsnr.
ValueRows == {3, 4}
DerivedRows == {5, 6, 7, 8}

\* C25 (magnitude independent of the orientation correction): for the same
\* Landtrendr output, get_segment_data with right = True and with
\* right = False returns identical magnitude, duration, rate and
\* signal-to-noise, the magnitude being v_(i+1).value - v_i.value; only
\* start_val and end_val differ, by the factor dir of the index.
C25_MagnitudeIgnoresOrientation ==
    Segmented =>
        \A other \in {OtherOrientation} :
            /\ \A r \in DerivedRows : seg_info.array[r] = other.array[r]
            /\ \A i \in Segments :
                 /\ SegMag(i) = VertexValue(i + 1) - VertexValue(i)
                 /\ SegStartYear(i) = other.array[1][i]
                 /\ SegEndYear(i) = other.array[2][i]
                 /\ \A r \in ValueRows :
                      seg_info.array[r][i] = DirectionSign(seg_index) * other.array[r][i]

\* A corrected segment of magnitude other than 0 whose start and end values
\* are the negated values of the uncorrected one, at the same magnitude.
C25_Witness ==
    /\ Segmented
    /\ seg_right
    /\ \E other \in {OtherOrientation} :
         \E i \in Segments :
             /\ SegMag(i) # 0
             /\ SegMag(i) = other.array[5][i]
             /\ SegStartVal(i) # other.array[3][i]
             /\ SegEndVal(i) = -other.array[4][i]

\* C26 (loss-only selection under a positive threshold): with rmse > 0 and
\* tau > 0 every emitted event has magnitude > 0.
C26_PositiveThresholdSelectsLoss ==
    (Selected /\ LT_result.rmse > 0 /\ events_dsnr_threshold > 0) =>
        \A event \in EmittedEvents : event[5] > 0

\* With rmse > 0 and tau > 0, a pixel whose latest segment in the window has
\* a magnitude below 0 and whose returned event is an earlier segment of
\* magnitude above 0.
C26_Witness ==
    /\ Flattened
    /\ HasQualifying
    /\ LT_result.rmse > 0
    /\ events_dsnr_threshold > 0
    /\ flattened_image.val[5] > 0
    /\ \E i \in EmittedSegments :
         /\ SegMag(i) < 0
         /\ SegStartYear(i) > flattened_image.val[1]
         /\ SegEndYear(i) <= events_end_year

\* With tau <= 0 a segment of magnitude 0 or below is the returned event.
C26_NonPositiveSelected ==
    /\ Flattened
    /\ HasQualifying
    /\ LT_result.rmse > 0
    /\ events_dsnr_threshold <= 0
    /\ flattened_image.val[5] <= 0

----------------------------------------------------------------------------
(* build_LT_collection (preprocess.py): the collection for Landtrendr. *)

\* INDEX_DICT of preprocess.py.
INDEX_DICT_preprocess ==
    [NDVI |-> [dist_dir |-> -1, bands |-> <<"B4", "B3">>],
     NBR |-> [dist_dir |-> -1, bands |-> <<"B4", "B7">>]]

\* The lookup INDEX_DICT[index] without the except branch.
index_error_uncaught(index) ==
    IF index \in DOMAIN INDEX_DICT_preprocess THEN "none" ELSE "KeyError"

\* The except branch of the lookup INDEX_DICT[index] in build_LT_collection:
\* the exception raised, or "none".
index_error_preprocess(index) ==
    IF index \in DOMAIN INDEX_DICT_preprocess THEN "none"
    ELSE IF index \in {"NDSI", "NDMI", "TCB", "TCG", "TCW", "TCA", "NBR2"}
         THEN "NotImplementedError"
         ELSE "RuntimeError"

\* image.normalizedDifference(bands): one band "nd" holding
\* (first - second) / (first + second); the pixel is masked where an input is
\* masked or below 0; the properties of the image are not kept. zero_masked
\* tells what the platform does with two zeros.
normalizedDifference(image, bands, zero_masked) ==
    LET first == image.val[band_index(image, bands[1])]
        second == image.val[band_index(image, bands[2])]
        unmasked == /\ image.mask[band_index(image, bands[1])]
                    /\ image.mask[band_index(image, bands[2])]
                    /\ first >= 0
                    /\ second >= 0
                    /\ (first + second # 0 \/ ~zero_masked)
    IN  [names |-> <<"nd">>,
         val |-> <<IF unmasked /\ first + second # 0
                   THEN [num |-> first - second, den |-> first + second]
                   ELSE [num |-> 0, den |-> 1]>>,
         mask |-> <<unmasked>>]

\* image.rename(name) of an image of one band.
rename(image, name) == [image EXCEPT !.names = <<name>>]

\* image.multiply(k) of an image of one band holding a quotient.
multiply_band(image, k) ==
    [image EXCEPT !.val = <<[num |-> image.val[1].num * k, den |-> image.val[1].den]>>]

\* a.addBands(b): the bands of a, then the bands of b.
addBands(a, b) ==
    [names |-> a.names \o b.names, val |-> a.val \o b.val, mask |-> a.mask \o b.mask]

\* image.set("system:time_start", t)
set_time_start(image, t) ==
    [time |-> t, names |-> image.names, val |-> image.val, mask |-> image.mask]

\* ftv_bands = ["ftv_" + band for band in ftv_list]
ftv_bands(ftv_list) == [k \in 1..Len(ftv_list) |-> "ftv_" \o ftv_list[k]]

\* _format_images without the factor dist_dir.
_format_images_not_inverted(image, index, ftv_list, zero_masked) ==
    LET index_bands == INDEX_DICT_preprocess[index].bands
        idx == multiply_band(
                   rename(normalizedDifference(image, index_bands, zero_masked), index),
                   1000)
        ftv_values == select(image, ftv_list, ftv_bands(ftv_list))
    IN  set_time_start(addBands(idx, ftv_values), image.time)

\* _format_images(image), with index and ftv_list of the enclosing call.
_format_images(image, index, ftv_list, zero_masked) ==
    LET dist_dir == INDEX_DICT_preprocess[index].dist_dir
        index_bands == INDEX_DICT_preprocess[index].bands
        idx == multiply_band(
                   rename(normalizedDifference(image, index_bands, zero_masked), index),
                   dist_dir * 1000)
        ftv_values == select(image, ftv_list, ftv_bands(ftv_list))
    IN  set_time_start(addBands(idx, ftv_values), image.time)

\* build_LT_collection, past the lookup: collection.map(_format_images)
build_LT_collection(images, index, ftv_list, zero_masked) ==
    [k \in 1..Len(images) |-> _format_images(images[k], index, ftv_list, zero_masked)]

\* The greatest number of yearly composites and of feature bands tried.
MaxComposites == 2
MaxFtv == 2

\* The bands of a yearly composite of build_SR_collection.
CompositeBands == <<"B1", "B2", "B3", "B4", "B5", "B7">>

\* The greatest reflectance tried.
MaxSR == 400

\* The pixels tried, by B3, B4, B7 and the mask of B4: an ordinary one, one
\* of zeros, one with values below 0, one with B4 masked.
CompositePixels ==
    {[b3 |-> MaxSR \div 4, b4 |-> MaxSR, b7 |-> MaxSR \div 3, m4 |-> TRUE],
     [b3 |-> 0, b4 |-> 0, b7 |-> 0, m4 |-> TRUE],
     [b3 |-> -MaxVal, b4 |-> MaxSR \div 2, b7 |-> -MaxVal, m4 |-> TRUE],
     [b3 |-> MaxSR, b4 |-> MaxSR \div 4, b7 |-> MaxSR \div 2, m4 |-> FALSE]}

\* The composite of a year, at a pixel.
Composite(year, pixel) ==
    [time |-> fromYMD(year, 1, 1),
     names |-> CompositeBands,
     val |-> <<MaxSR \div 10, MaxSR \div 5, pixel.b3, pixel.b4, MaxSR \div 2, pixel.b7>>,
     mask |-> <<TRUE, TRUE, TRUE, pixel.m4, TRUE, TRUE>>]

\* The collections tried: up to MaxComposites yearly composites from FirstYear on.
CompositeCollections ==
    UNION {{[k \in 1..n |-> Composite(FirstYear + k - 1, pixels[k])] :
               pixels \in [1..n -> CompositePixels]} : n \in 0..MaxComposites}

\* The feature lists tried: up to MaxFtv different bands, in every order.
FtvNames == {"B1", "B4", "B7"}
FtvLists ==
    UNION {{s \in [1..n -> FtvNames] : \A i, j \in 1..n : i # j => s[i] # s[j]} :
           n \in 0..MaxFtv}

\* The index names tried: the supported ones, the 7 known ones, and two names
\* that are neither.
SupportedNames == {"NDVI", "NBR"}
OtherNames == {"NDSI", "NDMI", "TCB", "TCG", "TCW", "TCA", "NBR2", "EVI", "ndvi"}

\* The Landtrendr output given to get_segment_data under the same index.
ExampleResult == [LandTrendr |-> ExampleArray, rmse |-> MaxRmse, masked |-> FALSE]

LTInit ==
    /\ \/ /\ lt_index \in SupportedNames
          /\ sr_collection \in CompositeCollections
          /\ lt_ftv_list \in FtvLists
          /\ nd_zero_masked \in BOOLEAN
       \/ /\ lt_index \in OtherNames
          /\ sr_collection \in {c \in CompositeCollections : Len(c) = 1}
          /\ lt_ftv_list = <<"B1">>
          /\ nd_zero_masked = TRUE
    /\ lt_collection = <<>>
    /\ lt_pc = "build"
    /\ lt_failure = "none"
    /\ LT_result = ExampleResult
    /\ seg_index = lt_index
    /\ seg_right \in BOOLEAN
    /\ seg_info = <<>>
    /\ events_start_year = 0
    /\ events_end_year = 0
    /\ events_dsnr_threshold = 0
    /\ events = <<>>
    /\ flattened_image = <<>>
    /\ seg_pc = "segments"
    /\ seg_failure = "none"
    /\ CompositorIdle
    /\ MaskIdle
    /\ RoyIdle
    /\ MergeIdle
    /\ MainIdle
    /\ GediIdle

\* build_LT_collection with a supported index.
BuildLTCollection ==
    /\ lt_pc = "build"
    /\ index_error_preprocess(lt_index) = "none"
    /\ lt_collection' = build_LT_collection(sr_collection, lt_index, lt_ftv_list, nd_zero_masked)
    /\ lt_pc' = "done"
    /\ UNCHANGED <<sr_collection, lt_index, lt_ftv_list, nd_zero_masked, lt_failure>>
    /\ UNCHANGED <<compositor_vars, mask_vars, roy_vars, merge_vars, seg_vars, main_vars, gedi_vars>>

\* build_LT_collection with any other index: the lookup raises.
BuildLTCollectionRaises ==
    /\ lt_pc = "build"
    /\ index_error_preprocess(lt_index) # "none"
    /\ lt_failure' = index_error_preprocess(lt_index)
    /\ lt_pc' = "failed"
    /\ UNCHANGED <<sr_collection, lt_index, lt_ftv_list, nd_zero_masked, lt_collection>>
    /\ UNCHANGED <<compositor_vars, mask_vars, roy_vars, merge_vars, seg_vars, main_vars, gedi_vars>>

LTNext ==
    \/ BuildLTCollection
    \/ BuildLTCollectionRaises
    \/ GetSegmentData
    \/ GetSegmentDataRaises

SpecLT == LTInit /\ [][LTNext]_vars

\* ---- Index names ----

\* The names the specification lists as known but not supported.
KnownUnsupported == {"NDSI", "NDMI", "TCB", "TCG", "TCW", "TCA", "NBR2"}

\* The exception the specification gives for a name, or "none".
ExpectedError(name) ==
    IF name \in {"NDVI", "NBR"} THEN "none"
    ELSE IF name \in KnownUnsupported THEN "NotImplementedError"
    ELSE "RuntimeError"

\* C23 (index error taxonomy): build_LT_collection and get_segment_data
\* accept exactly NDVI and NBR; for NDSI, NDMI, TCB, TCG, TCW, TCA, NBR2 they
\* raise NotImplementedError and for any other name RuntimeError, and in both
\* cases they produce no output.
C23_IndexErrorTaxonomy ==
    /\ lt_pc \in {"done", "failed"} =>
           /\ lt_pc = "done" <=> lt_index \in {"NDVI", "NBR"}
           /\ lt_failure = ExpectedError(lt_index)
           /\ lt_pc = "failed" => lt_collection = <<>>
    /\ seg_pc \in {"events", "done", "flattened", "failed"} =>
           /\ seg_pc # "failed" <=> seg_index \in {"NDVI", "NBR"}
           /\ seg_failure = ExpectedError(seg_index)
           /\ seg_pc = "failed" =>
                  seg_info = <<>> /\ events = <<>> /\ flattened_image = <<>>

\* Both entry points were given NBR2 and raised NotImplementedError.
C23_Witness ==
    /\ lt_index = "NBR2"
    /\ seg_index = "NBR2"
    /\ lt_pc = "failed"
    /\ seg_pc = "failed"
    /\ lt_failure = "NotImplementedError"
    /\ seg_failure = "NotImplementedError"
    /\ lt_collection = <<>>
    /\ seg_info = <<>>

\* ---- Band layout ----

\* The two bands of an index, as the specification lists them.
IndexBands(name) == IF name = "NDVI" THEN <<"B4", "B3">> ELSE <<"B4", "B7">>

\* The value and the mask of a band of an image.
BandValue(image, name) == image.val[band_index(image, name)]
BandMask(image, name) == image.mask[band_index(image, name)]

\* The first band of out is the normalized difference of the two bands of
\* the index in the image, times the direction, times 1000.
IsScaledIndex(out, image, name) ==
    LET a == BandValue(image, IndexBands(name)[1])
        b == BandValue(image, IndexBands(name)[2])
        present == /\ BandMask(image, IndexBands(name)[1])
                   /\ BandMask(image, IndexBands(name)[2])
                   /\ a >= 0
                   /\ b >= 0
    IN  /\ out.names[1] = name
        /\ ~present => ~out.mask[1]
        /\ (present /\ a + b # 0) =>
               /\ out.mask[1]
               /\ out.val[1].den # 0
               /\ out.val[1].num * (a + b) = (a - b) * DirectionSign(name) * 1000 * out.val[1].den
        /\ (present /\ a + b = 0) =>
               IF nd_zero_masked THEN ~out.mask[1] ELSE out.mask[1] /\ out.val[1].num = 0

\* C24 (index band layout): every image of build_LT_collection has as first
\* band the normalized difference of the bands of the index, times the
\* direction of the index, times 1000, followed by one band "ftv_<name>" for
\* each entry of the feature list, in the order of the caller and with the
\* values unchanged; the timestamp of the image is kept.
C24_IndexBandLayout ==
    lt_pc = "done" =>
        /\ Len(lt_collection) = Len(sr_collection)
        /\ \A k \in 1..Len(lt_collection) :
             /\ lt_collection[k].time = sr_collection[k].time
             /\ Len(lt_collection[k].names) = 1 + Len(lt_ftv_list)
             /\ IsScaledIndex(lt_collection[k], sr_collection[k], lt_index)
             /\ \A j \in 1..Len(lt_ftv_list) :
                  /\ lt_collection[k].names[1 + j] = "ftv_" \o lt_ftv_list[j]
                  /\ lt_collection[k].val[1 + j] = BandValue(sr_collection[k], lt_ftv_list[j])
                  /\ lt_collection[k].mask[1 + j] = BandMask(sr_collection[k], lt_ftv_list[j])

\* Two composites under NBR with the features B7, B1: the first image holds
\* a value below 0 in its band NBR, then ftv_B7 and ftv_B1.
C24_Witness ==
    /\ lt_pc = "done"
    /\ lt_index = "NBR"
    /\ lt_ftv_list = <<"B7", "B1">>
    /\ Len(lt_collection) = MaxComposites
    /\ lt_collection[1].names = <<"NBR", "ftv_B7", "ftv_B1">>
    /\ lt_collection[1].mask[1]
    /\ lt_collection[1].val[1].num < 0
    /\ lt_collection[1].val[2] = MaxSR \div 3

----------------------------------------------------------------------------
(* main of build_SR_collection.py, the copy of the compositing pipeline, run
   after build_SR_collection of preprocess.py on the same merged series. *)

\* extract_medoid_image of build_SR_collection.py for a year: the inputs of
\* the reducer.
main_distance_from_median(images, year, sd, ed) ==
    distance_from_median(filterDate(images, window_start(year, sd), window_end(year, ed)))

\* .select([1, 2, 3, 4, 5, 6], ["B1", "B2", "B3", "B4", "B5", "B7"]) in main
main_select(image) ==
    [val |-> [b \in Bands |-> image.val[b + 1]],
     mask |-> [b \in Bands |-> image.mask[b + 1]],
     props |-> image.props]

\* Both pipelines are given the same series and day bounds.
BothInit ==
    /\ MaskIdle
    /\ RoyIdle
    /\ MergeIdle
    /\ SegIdle
    /\ LTIdle
    /\ GediIdle
    /\ entry = "build_SR_collection"
    /\ \E w \in Windows :
        /\ start_day = w[1]
        /\ end_day = w[2]
        /\ collection \in TimeSeries(w[1], w[2])
                             \cup (IF w = InnerWindow THEN BandSeries ELSE {})
    /\ pc = "years"
    /\ years = <<>>
    /\ filtered = <<>>
    /\ distances = <<>>
    /\ medoids = <<>>
    /\ result = <<>>
    /\ failure = "none"
    /\ main_years = <<>>
    /\ main_medoids = <<>>
    /\ main_result = <<>>
    /\ main_pc = "years"
    /\ main_failure = "none"

\* years = create_yearly_list(collection), once the first pipeline has ended.
MainCreateYearlyList ==
    /\ pc \in {"done", "failed"}
    /\ main_pc = "years"
    /\ main_years' = create_yearly_list(collection)
    /\ main_pc' = "medoid"
    /\ UNCHANGED <<main_medoids, main_result, main_failure>>
    /\ UNCHANGED <<compositor_vars, mask_vars, roy_vars, merge_vars, seg_vars, lt_vars, gedi_vars>>

\* years.map(_extract_medoid): extract_medoid_image for the next year.
MainExtractMedoid ==
    /\ main_pc = "medoid"
    /\ Len(main_medoids) < Len(main_years)
    /\ LET k == Len(main_medoids) + 1
           dist == main_distance_from_median(collection, main_years[k], start_day, end_day)
       IN  \E out \in reduce_min7(dist) :
               main_medoids' = Append(main_medoids,
                                      [val |-> out.val, mask |-> out.mask,
                                       props |-> medoid_properties("main", main_years[k])])
    /\ UNCHANGED <<main_years, main_result, main_pc, main_failure>>
    /\ UNCHANGED <<compositor_vars, mask_vars, roy_vars, merge_vars, seg_vars, lt_vars, gedi_vars>>

\* ee.ImageCollection.fromImages(images)
MainFromImages ==
    /\ main_pc = "medoid"
    /\ Len(main_medoids) = Len(main_years)
    /\ main_pc' = "select"
    /\ UNCHANGED <<main_years, main_medoids, main_result, main_failure>>
    /\ UNCHANGED <<compositor_vars, mask_vars, roy_vars, merge_vars, seg_vars, lt_vars, gedi_vars>>

\* .select([1, 2, 3, 4, 5, 6], [...]) on every image of the collection.
MainSelectBands ==
    /\ main_pc = "select"
    /\ \A k \in 1..Len(main_medoids) : can_select(main_medoids[k])
    /\ main_result' = [k \in 1..Len(main_medoids) |-> main_select(main_medoids[k])]
    /\ main_pc' = "done"
    /\ UNCHANGED <<main_years, main_medoids, main_failure>>
    /\ UNCHANGED <<compositor_vars, mask_vars, roy_vars, merge_vars, seg_vars, lt_vars, gedi_vars>>

\* The same when an image lacks the bands: Earth Engine raises its exception.
MainSelectFails ==
    /\ main_pc = "select"
    /\ \E k \in 1..Len(main_medoids) : ~can_select(main_medoids[k])
    /\ main_failure' = "EEException"
    /\ main_pc' = "failed"
    /\ UNCHANGED <<main_years, main_medoids, main_result>>
    /\ UNCHANGED <<compositor_vars, mask_vars, roy_vars, merge_vars, seg_vars, lt_vars, gedi_vars>>

BothNext ==
    \/ CreateYearlyList
    \/ ExtractMedoid
    \/ FromImages
    \/ SelectBands
    \/ SelectFails
    \/ MainCreateYearlyList
    \/ MainExtractMedoid
    \/ MainFromImages
    \/ MainSelectBands
    \/ MainSelectFails

SpecBoth == BothInit /\ [][BothNext]_vars

\* ---- The two pipelines ----

\* Both pipelines have ended.
BothEnded == pc \in {"done", "failed"} /\ main_pc \in {"done", "failed"}

----------------------------------------------------------------------------
(* gedi_L2A_to_df (src/gedi/process_l2a.py): the shots of the h5 files. *)

\* The beams read from every file, in this order.
BeamNames ==
    <<"BEAM0000", "BEAM0001", "BEAM0010", "BEAM0011",
      "BEAM0101", "BEAM0110", "BEAM1000", "BEAM1011">>

\* The mask with the box taken without its border.
mask_exclusive(shots, bbox) ==
    [s \in 1..Len(shots) |->
        /\ shots[s].quality_flag = 1
        /\ shots[s].lat_lowestmode < bbox[1]
        /\ shots[s].lat_lowestmode > bbox[3]
        /\ shots[s].lon_lowestmode < bbox[4]
        /\ shots[s].lon_lowestmode > bbox[2]]

\* mask = (qual == 1) & (x <= ul_lat) & (x >= lr_lat) & (y <= lr_lon) & (y >= ul_lon)
mask(shots, bbox) ==
    [s \in 1..Len(shots) |->
        /\ shots[s].quality_flag = 1
        /\ shots[s].lat_lowestmode <= bbox[1]
        /\ shots[s].lat_lowestmode >= bbox[3]
        /\ shots[s].lon_lowestmode <= bbox[4]
        /\ shots[s].lon_lowestmode >= bbox[2]]

\* np.count_nonzero(mask)
count_nonzero(flags) == Cardinality({s \in 1..Len(flags) : flags[s]})

\* The positions of the shots the mask keeps, in their order.
RECURSIVE kept(_, _)
kept(flags, s) ==
    IF s > Len(flags) THEN <<>>
    ELSE IF flags[s] THEN <<s>> \o kept(flags, s + 1)
    ELSE kept(flags, s + 1)

\* tmp_df: a row for every shot the mask keeps, with the beam and the layers,
\* indexed from 0.
tmp_df(beam, shots, flags) ==
    LET rows == kept(flags, 1)
    IN  [r \in 1..Len(rows) |->
            [index |-> r - 1,
             beam |-> beam,
             shot_number |-> shots[rows[r]].shot_number,
             lat_lowestmode |-> shots[rows[r]].lat_lowestmode,
             lon_lowestmode |-> shots[rows[r]].lon_lowestmode,
             quality_flag |-> shots[rows[r]].quality_flag]]

\* df.reset_index(drop=True): the rows numbered from 0.
reset_index(df) == [r \in 1..Len(df) |-> [df[r] EXCEPT !.index = r - 1]]

\* layers, the default of the argument: the columns of the output.
layers ==
    <<"shot_number", "lat_lowestmode", "lon_lowestmode", "elev_lowestmode",
      "elev_highestreturn", "sensitivity", "quality_flag", "rh">>

\* The layers read for the mask: latlayer, lonlayer and "quality_flag".
mask_layers == {"lat_lowestmode", "lon_lowestmode", "quality_flag"}

\* Reading the beam raises a KeyError: the group of the beam or one of the
\* layers of the mask is missing, or any layer of the output is missing and
\* the mask keeps a shot.
raises_KeyError(group, bbox) ==
    \/ group.missing = "beam"
    \/ group.missing \in mask_layers
    \/ /\ \E k \in 1..Len(layers) : layers[k] = group.missing
       /\ count_nonzero(mask(group.shots, bbox)) > 0

\* The greatest number of files and the greatest coordinate of the box.
MaxFiles == 2
MaxCoord == 2

\* bbox = [ul_lat, ul_lon, lr_lat, lr_lon]
Box == <<MaxCoord, 0, 0, MaxCoord>>

\* A shot of a beam of a file.
Shot(f, b, s, lat, lon, qual) ==
    [shot_number |-> <<f, b, s>>, lat_lowestmode |-> lat, lon_lowestmode |-> lon,
     quality_flag |-> qual]

\* The shots of a beam: one inside and one outside the box; two on the
\* border of the box; none that is usable; none of good quality on the
\* border.
BeamShots(kind, f, b) ==
    IF kind = "inside"
    THEN <<Shot(f, b, 1, MaxCoord + 1, 1, 1), Shot(f, b, 2, 1, 1, 1)>>
    ELSE IF kind = "border"
    THEN <<Shot(f, b, 1, MaxCoord, 0, 1), Shot(f, b, 2, 0, MaxCoord, 1)>>
    ELSE <<Shot(f, b, 1, 1, 1, 0), Shot(f, b, 2, 1, -1, 1)>>

\* The files tried, by the beam that stands out, what is missing from it,
\* and the shots of the beams before it, of itself and after it.
FileKinds ==
    {[missing |-> "none", before |-> "inside", at |-> "border", after |-> "unusable"],
     [missing |-> "beam", before |-> "inside", at |-> "inside", after |-> "border"],
     [missing |-> "lat_lowestmode", before |-> "border", at |-> "inside", after |-> "inside"],
     [missing |-> "rh", before |-> "inside", at |-> "border", after |-> "inside"],
     [missing |-> "rh", before |-> "unusable", at |-> "unusable", after |-> "inside"],
     [missing |-> "lon_lowestmode", before |-> "inside", at |-> "unusable", after |-> "inside"],
     [missing |-> "shot_number", before |-> "border", at |-> "inside", after |-> "border"],
     [missing |-> "sensitivity", before |-> "inside", at |-> "unusable", after |-> "border"]}
Positions == {1, 3, Len(BeamNames)}

\* The h5 file: per beam, what is missing from its group and its shots.
File(f, kind, p) ==
    [b \in 1..Len(BeamNames) |->
        [missing |-> IF b = p THEN kind.missing ELSE "none",
         shots |-> BeamShots(IF b < p THEN kind.before
                             ELSE IF b = p THEN kind.at ELSE kind.after, f, b)]]

\* The files tried, by kind and position: every kind at the third beam, a
\* missing beam or a missing rh at the first and at the last beam as well.
FilePlans ==
    {plan \in FileKinds \X Positions :
        plan[2] = 3 \/ plan[1].missing \in {"beam", "rh"}}

\* The lists of files tried.
FileLists ==
    UNION {{[f \in 1..n |-> File(f, plans[f][1], plans[f][2])] :
               plans \in [1..n -> FilePlans]} :
           n \in 0..MaxFiles}

GediInit ==
    /\ CompositorIdle
    /\ MaskIdle
    /\ RoyIdle
    /\ MergeIdle
    /\ SegIdle
    /\ LTIdle
    /\ MainIdle
    /\ gedi_file_paths \in FileLists
    /\ gedi_bbox = Box
    /\ gedi_df = <<>>
    /\ gedi_file = 1
    /\ gedi_beam = 1
    /\ gedi_errors = [f \in 1..Len(gedi_file_paths) |-> 0]
    /\ gedi_pc = "files"

\* Reading the beam raises a KeyError: except KeyError, then the next file.
BeamKeyError ==
    /\ gedi_pc = "files"
    /\ gedi_file <= Len(gedi_file_paths)
    /\ gedi_beam <= Len(BeamNames)
    /\ raises_KeyError(gedi_file_paths[gedi_file][gedi_beam], gedi_bbox)
    /\ gedi_errors' = [gedi_errors EXCEPT ![gedi_file] = gedi_beam]
    /\ gedi_file' = gedi_file + 1
    /\ gedi_beam' = 1
    /\ UNCHANGED <<gedi_file_paths, gedi_bbox, gedi_df, gedi_pc>>
    /\ UNCHANGED <<compositor_vars, mask_vars, roy_vars, merge_vars, seg_vars, lt_vars,
                   main_vars>>

\* if np.count_nonzero(mask) == 0: continue
BeamContinue ==
    /\ gedi_pc = "files"
    /\ gedi_file <= Len(gedi_file_paths)
    /\ gedi_beam <= Len(BeamNames)
    /\ ~raises_KeyError(gedi_file_paths[gedi_file][gedi_beam], gedi_bbox)
    /\ count_nonzero(mask(gedi_file_paths[gedi_file][gedi_beam].shots, gedi_bbox)) = 0
    /\ gedi_beam' = gedi_beam + 1
    /\ UNCHANGED <<gedi_file_paths, gedi_bbox, gedi_df, gedi_file, gedi_errors, gedi_pc>>
    /\ UNCHANGED <<compositor_vars, mask_vars, roy_vars, merge_vars, seg_vars, lt_vars,
                   main_vars>>

\* else: tmp_df is filled and df = df.append(tmp_df)
BeamAppend ==
    /\ gedi_pc = "files"
    /\ gedi_file <= Len(gedi_file_paths)
    /\ gedi_beam <= Len(BeamNames)
    /\ ~raises_KeyError(gedi_file_paths[gedi_file][gedi_beam], gedi_bbox)
    /\ LET shots == gedi_file_paths[gedi_file][gedi_beam].shots
       IN  /\ count_nonzero(mask(shots, gedi_bbox)) # 0
           /\ gedi_df' = gedi_df \o tmp_df(BeamNames[gedi_beam], shots, mask(shots, gedi_bbox))
    /\ gedi_beam' = gedi_beam + 1
    /\ UNCHANGED <<gedi_file_paths, gedi_bbox, gedi_file, gedi_errors, gedi_pc>>
    /\ UNCHANGED <<compositor_vars, mask_vars, roy_vars, merge_vars, seg_vars, lt_vars,
                   main_vars>>

\* The list of beams is exhausted: the next file.
NextFile ==
    /\ gedi_pc = "files"
    /\ gedi_file <= Len(gedi_file_paths)
    /\ gedi_beam = Len(BeamNames) + 1
    /\ gedi_file' = gedi_file + 1
    /\ gedi_beam' = 1
    /\ UNCHANGED <<gedi_file_paths, gedi_bbox, gedi_df, gedi_errors, gedi_pc>>
    /\ UNCHANGED <<compositor_vars, mask_vars, roy_vars, merge_vars, seg_vars, lt_vars,
                   main_vars>>

\* return df.reset_index(drop=True)
ReturnDf ==
    /\ gedi_pc = "files"
    /\ gedi_file = Len(gedi_file_paths) + 1
    /\ gedi_df' = reset_index(gedi_df)
    /\ gedi_pc' = "returned"
    /\ UNCHANGED <<gedi_file_paths, gedi_bbox, gedi_file, gedi_beam, gedi_errors>>
    /\ UNCHANGED <<compositor_vars, mask_vars, roy_vars, merge_vars, seg_vars, lt_vars,
                   main_vars>>

GediNext ==
    \/ BeamKeyError
    \/ BeamContinue
    \/ BeamAppend
    \/ NextFile
    \/ ReturnDf

SpecGedi == GediInit /\ [][GediNext]_vars

\* ---- Error isolation ----

\* A shot of good quality inside the box, the border included.
Usable(shot) ==
    /\ shot.quality_flag = 1
    /\ shot.lat_lowestmode \in gedi_bbox[3]..gedi_bbox[1]
    /\ shot.lon_lowestmode \in gedi_bbox[2]..gedi_bbox[4]

\* The beams of a file read before the KeyError, all of them if there was
\* none.
BeamsRead(f) ==
    IF gedi_errors[f] = 0 THEN 1..Len(BeamNames) ELSE 1..(gedi_errors[f] - 1)

\* The numbers of the usable shots of a beam of a file.
UsableShots(f, b) ==
    {shot.shot_number :
        shot \in {gedi_file_paths[f][b].shots[s] :
                     s \in {z \in 1..Len(gedi_file_paths[f][b].shots) :
                               Usable(gedi_file_paths[f][b].shots[z])}}}

\* The shots the returned rows should stand for: the usable shots of the
\* beams read, of every file.
ExpectedShots ==
    UNION {UNION {UsableShots(f, b) : b \in BeamsRead(f)} :
           f \in 1..Len(gedi_file_paths)}

\* C28 (per-file error isolation): when reading a beam or a layer of one
\* file raises a KeyError, the remaining beams of that file are skipped and
\* every later file is still processed; the returned DataFrame holds the rows
\* of all other files and the rows of the beams of the failing file that
\* were appended before the error. A beam with no shot of quality_flag 1
\* inside the bounding box, border included, contributes no rows.
C28_PerFileErrorIsolation ==
    gedi_pc = "returned" =>
        /\ {gedi_df[r].shot_number : r \in 1..Len(gedi_df)} = ExpectedShots
        /\ Len(gedi_df) = Cardinality(ExpectedShots)
        /\ \A r \in 1..Len(gedi_df) : gedi_df[r].index = r - 1

\* The first of two files raised a KeyError at its third beam: the rows of
\* its first two beams and the rows of the second file are returned.
C28_Witness ==
    /\ gedi_pc = "returned"
    /\ Len(gedi_file_paths) = MaxFiles
    /\ gedi_errors[1] = 3
    /\ gedi_errors[MaxFiles] = 0
    /\ \E r \in 1..Len(gedi_df) : gedi_df[r].shot_number[1] = 1 /\ gedi_df[r].shot_number[2] = 2
    /\ \A r \in 1..Len(gedi_df) : gedi_df[r].shot_number[1] = 1 => gedi_df[r].shot_number[2] < 3
    /\ \E r \in 1..Len(gedi_df) :
         gedi_df[r].shot_number[1] = MaxFiles /\ gedi_df[r].shot_number[2] = Len(BeamNames)
====
